---- MODULE Spec2Model ----
(***************************************************************************)
(* Coil positioning routines of BLUEPRINT/equilibria/positioner.py:        *)
(* CoilPositioner (initial layouts), XZLMapper (1-D track mapper with      *)
(* exclusion zones and the CS edge stacking), RegionMapper (2-D region     *)
(* mapper) and RegionInterpolator (one convex region).                     *)
(*                                                                         *)
(* Real numbers are exact fixed-point integers.  Every quantity states its *)
(* unit where it is defined:                                               *)
(*   - a normalised PF track coordinate L is a numerator over LOne, and    *)
(*     one unit of it stands for the rounding of a float's last bits;      *)
(*   - CS quantities carry an explicit scale (see the CS section).         *)
(***************************************************************************)
EXTENDS Integers, Sequences, FiniteSets, TLC

VARIABLES
    seg_lb, seg_ub, seg_out,                       \* _segment_tracks(lb, ub)
    mapper,                                        \* XZLMapper constructor fields
    coilset, mapping,                              \* XZLMapper.get_Lmap inputs
    excl_zones, exclusions, lmap,                  \* XZLMapper state, last result
    positioner,                                    \* CoilPositioner fields
    cs_op, cs_arg, cs_out,                         \* last CS call: name, argument, outcome
    rmap,                                          \* RegionMapper fields
    rm_op, rm_arg, rm_out,                         \* last RegionMapper call
    rm_calls,                                      \* number of calls made on rmap
    interp,                                        \* RegionInterpolator fields
    ri_op, ri_arg, ri_out,                         \* last RegionInterpolator call
    gb_ex, gb_l, gb_out                            \* _get_bounds(l_values) on self.exclusions

segVars == <<seg_lb, seg_ub, seg_out>>
xzlVars == <<mapper, coilset, mapping, excl_zones, exclusions, lmap>>
csVars == <<positioner, cs_op, cs_arg, cs_out>>
rmVars == <<rmap, rm_op, rm_arg, rm_out, rm_calls>>
riVars == <<interp, ri_op, ri_arg, ri_out>>
gbVars == <<gb_ex, gb_l, gb_out>>
vars == <<segVars, xzlVars, csVars, rmVars, riVars, gbVars>>

\* Python's None, and the value of a variable that a specification leaves idle.
None == "None"

\* The outcome of a call is a record whose status is "returned" or the name of
\* the exception raised; Uncalled is the outcome variable before any call.
Uncalled == [status |-> "uncalled"]

(***************************************************************************)
(* Bounds of the model.                                                    *)
(***************************************************************************)
\* Largest number of PF coils on the track (and of entries of lb / ub).
MaxTrackCoils == 3
\* The track is cut into GridN equal steps; coils and zone edges sit on them.
GridN == 4
\* Largest number of exclusion zones registered with one mapper.
MaxZones == 2
\* Largest number of CS modules asked of the CoilPositioner.
MaxNCS == 5
\* Largest number of CS modules of a stack or L vector of the XZLMapper.
MaxStack == 3
\* Largest z_max of the solenoid, in whole units of length.
ZTop == 4
\* Largest gap between CS modules, in whole units of length.
MaxGap == 2
\* Largest number of calls made on one RegionMapper.
MaxCalls == 3

(***************************************************************************)
(* Arithmetic helpers.                                                     *)
(***************************************************************************)
Abs(a) == IF a < 0 THEN -a ELSE a
Min2(a, b) == IF a <= b THEN a ELSE b
Max2(a, b) == IF a >= b THEN a ELSE b

RECURSIVE GCD(_, _)
GCD(a, b) == IF b = 0 THEN a ELSE GCD(b, a % b)

LCM(a, b) == (a * b) \div GCD(a, b)

RECURSIVE LCMUpTo(_)
LCMUpTo(n) == IF n <= 1 THEN 1 ELSE LCM(n, LCMUpTo(n - 1))

\* Units of length per grid step of the track.
SegDen == LCMUpTo(MaxTrackCoils)
\* The length of the track, in units of length.
TrackLen == GridN * SegDen
\* The x of the grid points, in units of length.
GridX == {k * SegDen : k \in 0..GridN}

\* minimize_scalar(method="bounded") never returns one of its bounds: for a
\* point at or beyond an end of the track its golden-section steps stop
\* 5.96e-6 short of the bound (0.596 of xatol = 1e-5), whatever the track.
\* XTolInv is 1 / 5.96e-6 = 167761, rounded to a multiple of the grid.
XTolInv == 167760
\* That distance in units of L.  One unit of L stands for the rounding of the
\* last bits of a float; XTol is a multiple of SegDen, so that every
\* (upper - lower) / n of _segment_tracks with n <= MaxTrackCoils is exact on
\* values that are whole multiples of XTol, and of 4, so that a few roundings
\* stay far below it.
XTol == 4 * SegDen
\* The numerator that stands for L = 1.0.
LOne == XTolInv * XTol
\* L per grid step and per unit of length.
LStep == LOne \div GridN
LPerLen == LOne \div TrackLen
\* Values of L on the grid.
GridL == {k * LStep : k \in 0..GridN}

\* BLUEPRINT.utilities.tools.clip on scalars / elementwise (numpy.clip):
\* minimum(maximum(val, val_min), val_max).
clip(val, val_min, val_max) == Min2(Max2(val, val_min), val_max)

ClipVec(v, lo, hi) == [i \in DOMAIN v |-> clip(v[i], lo[i], hi[i])]

Zeros(n) == [i \in 1..n |-> 0]

\* Python indices are 0-based; At(s, i) reads and Put(s, i, v) writes element
\* i of a numpy array or list held as a 1-based sequence.
At(s, i) == s[i + 1]
Put(s, i, v) == [s EXCEPT ![i + 1] = v]

\* list.count
Count(s, v) == Cardinality({i \in DOMAIN s : s[i] = v})

(***************************************************************************)
(* Sorting (numpy.sort, sorted): insertion sort, stable.                   *)
(***************************************************************************)
\* Insert v into the sorted sequence s after every element with a key <= its
\* own; an element is <<key, value>>.
RECURSIVE InsertKeyed(_, _)
InsertKeyed(s, v) ==
    IF s = <<>> THEN <<v>>
    ELSE IF v[1] < Head(s)[1] THEN <<v>> \o s
    ELSE <<Head(s)>> \o InsertKeyed(Tail(s), v)

RECURSIVE SortKeyed(_)
SortKeyed(s) ==
    IF s = <<>> THEN <<>>
    ELSE InsertKeyed(SortKeyed(SubSeq(s, 1, Len(s) - 1)), s[Len(s)])

\* numpy.sort / sorted of a vector of numbers, ascending.
Sort(s) ==
    LET t == SortKeyed([i \in DOMAIN s |-> <<s[i], s[i]>>])
    IN  [i \in DOMAIN t |-> t[i][2]]
Reverse(s) == [i \in 1..Len(s) |-> s[Len(s) + 1 - i]]

(***************************************************************************)
(* XZLMapper: the central solenoid track.                                  *)
(* z, dz and the gap are integers in quarter units of length (z_min, z_max *)
(* and the gap are whole units, i.e. multiples of 4), so that the halvings *)
(* of the code are exact.  A CS L value is a numerator over                *)
(* CSOne(m) = m.z_max - m.z_min.                                           *)
(***************************************************************************)
CSOne(m) == m.z_max - m.z_min

\* make_cstrack: cstrack["L"] = interp1d([z_max, z_min], [0, 1]) raises
\* ValueError outside [z_min, z_max]; cstrack["z"] = interp1d([0, 1], z).
cstrack_L_ok(m, z) == m.z_min <= z /\ z <= m.z_max
cstrack_L(m, z) == m.z_max - z
cstrack_z(m, l) == m.z_max - l

\* z_edge[i] for i in range(1, len - 1), given the edge above.
RECURSIVE ZEdges(_, _, _, _)
ZEdges(m, zc, i, acc) ==
    IF i >= Len(zc) - 1 THEN acc
    ELSE ZEdges(m, zc, i + 1,
                Append(acc, At(zc, i) - (At(acc, i - 1) - At(zc, i) - m.gap)))

\* z_to_L(zc_vec): the outcome [status, L].
z_to_L(m, zc_vec) ==
    LET zc == Reverse(Sort(zc_vec))
    IN  IF Len(zc) = 1 THEN [status |-> "returned", L |-> <<CSOne(m) \div 2>>]
        ELSE IF Len(zc) = 0 THEN [status |-> "IndexError", L |-> <<>>]
        ELSE LET e0 == m.z_max - 2 * Abs(m.z_max - At(zc, 0))
                 z_edge == Append(ZEdges(m, zc, 1, <<e0>>), m.z_min)
             IN  IF \A i \in DOMAIN z_edge : cstrack_L_ok(m, z_edge[i])
                 THEN [status |-> "returned",
                       L |-> [i \in DOMAIN z_edge |-> cstrack_L(m, z_edge[i])]]
                 ELSE [status |-> "ValueError", L |-> <<>>]

\* The loop of L_to_zdz over i in range(1, len): st = [dz, zc].
RECURSIVE ZdzLoop(_, _, _, _)
ZdzLoop(m, z_edge, i, st) ==
    IF i >= Len(z_edge) THEN st
    ELSE LET dzi == Abs(At(z_edge, i - 1) - At(z_edge, i) - m.gap) \div 2
             zci == At(z_edge, i - 1) - dzi - m.gap
         IN  ZdzLoop(m, z_edge, i + 1,
                     [dz |-> Append(st.dz, dzi), zc |-> Append(st.zc, zci)])

\* L_to_zdz(l_values): the outcome [status, x, zc, dz].
L_to_zdz(m, l_values) ==
    LET l == Sort([i \in DOMAIN l_values |-> clip(l_values[i], 0, CSOne(m))])
        z_edge == [i \in DOMAIN l |-> cstrack_z(m, l[i])]
    IN  IF Len(l) = 0 THEN [status |-> "IndexError", x |-> <<>>, zc |-> <<>>, dz |-> <<>>]
        ELSE LET dz0 == Abs(m.z_max - At(z_edge, 0)) \div 2
                 zc0 == m.z_max - dz0
                 st == ZdzLoop(m, z_edge, 1, [dz |-> <<dz0>>, zc |-> <<zc0>>])
             IN  [status |-> "returned",
                  x |-> [i \in DOMAIN l |-> m.Xcs],
                  zc |-> Reverse(st.zc), dz |-> Reverse(st.dz)]


(***************************************************************************)
(* XZLMapper._segment_tracks                                               *)
(***************************************************************************)

\* for k, j in enumerate(range(i, i + n)): lb_new[j] = ...; ub_new[j] = ...
\* A write past the end of the numpy array raises IndexError.
RECURSIVE SegFill(_, _, _, _, _, _)
SegFill(st, i, n, k, upper, delta) ==
    IF k = n THEN st
    ELSE IF i + k >= Len(st.lb_new) THEN [st EXCEPT !.status = "IndexError"]
    ELSE SegFill([st EXCEPT !.lb_new = Put(st.lb_new, i + k, upper - (k + 1) * delta),
                            !.ub_new = Put(st.ub_new, i + k, upper - k * delta)],
                 i, n, k + 1, upper, delta)

\* One pass of "for i, (lower, upper) in enumerate(zip(lb, ub))".
SegStep(st, lb, ub, i) ==
    LET lower == At(lb, i)
        upper == At(ub, i)
        n == Count(lb, lower)
        flag1 == IF i = st.last_n THEN FALSE ELSE st.flag
    IN  IF n = 1
        THEN [st EXCEPT !.flag = FALSE,
                        !.lb_new = Put(st.lb_new, i, lower),
                        !.ub_new = Put(st.ub_new, i, upper)]
        ELSE IF ~flag1
        THEN SegFill([st EXCEPT !.flag = TRUE, !.last_n = i + n],
                     i, n, 0, upper, (upper - lower) \div n)
        ELSE [st EXCEPT !.flag = flag1]

RECURSIVE SegLoop(_, _, _, _)
SegLoop(st, lb, ub, i) ==
    IF i >= Len(lb) \/ st.status # "returned" THEN st
    ELSE SegLoop(SegStep(st, lb, ub, i), lb, ub, i + 1)

\* _segment_tracks(lb, ub): the outcome [status, lb, ub].
SegmentResult(lb, ub) ==
    LET st == SegLoop([lb_new |-> Zeros(Len(lb)), ub_new |-> Zeros(Len(ub)),
                       flag |-> FALSE, last_n |-> -1, status |-> "returned"], lb, ub, 0)
    IN  [status |-> st.status, lb |-> st.lb_new, ub |-> st.ub_new]

_segment_tracks(lb, ub) == SegmentResult(lb, ub)

(***************************************************************************)
(* XZLMapper: the PF track.                                                *)
(* The track is the straight polyline from (0, 0) to (TrackLen, 0), in     *)
(* units of length (SegDen per grid step), so pfloop.length = TrackLen and *)
(* the interpolator at the numerator l is the point (l / LPerLen, 0), a    *)
(* whole number of units of length for the l of TrackL.                    *)
(***************************************************************************)
pfloop_length == TrackLen
pftrack_x(l) == l \div LPerLen
pftrack_z(l) == 0

\* PFnorm(l_values, loop, point)
PFnorm(l, point) ==
    (pftrack_x(l) - point[1]) * (pftrack_x(l) - point[1])
        + (pftrack_z(l) - point[2]) * (pftrack_z(l) - point[2])

\* The L of the whole units of length along the track.
TrackL == {k * LPerLen : k \in 0..TrackLen}

\* The minimiser of PFnorm over [0, 1] for the points the model uses (at a
\* whole unit of length on the track or one grid step beside it).
Minimiser ==
    {<<p, CHOOSE l \in TrackL : \A k \in TrackL : PFnorm(l, p) <= PFnorm(k, p)>> :
        p \in (0..TrackLen) \X {0, SegDen}}

\* The rounding of the last bits of a result of the minimiser: it depends on
\* the point and on the scale of the track (on the track of length 24 the
\* point (18, 6) gives 0.75 + 1.1e-16 and (18, 0) gives 0.75; on the track of
\* length 4 the point (1, 0) gives 0.25 - 2.8e-17).
Rounding == {-1, 0, 1}

\* A rounding for every grid point strictly between the ends of the track.
InteriorX == GridX \ {0, TrackLen}
RoundAt(round, x) == IF x \in DOMAIN round THEN round[x] ELSE 0

\* xz_to_L: what minimize_scalar(PFnorm, method="bounded", bounds=[0, 1])
\* returns.  Towards a bound it stops XTol short of it; inside, its parabolic
\* step lands on the minimiser up to the rounding of the last bits.
xz_to_L(x, z, round) ==
    LET l == (CHOOSE t \in Minimiser : t[1] = <<x, z>>)[2]
    IN  IF l < XTol THEN XTol
        ELSE IF l > LOne - XTol THEN LOne - XTol
        ELSE l + round

\* L_to_xz
L_to_xz(l) == <<pftrack_x(l), pftrack_z(l)>>

(***************************************************************************)
(* XZLMapper.add_exclusion_zones                                           *)
(* A zone is the set of grid cells of the track that its polygon covers    *)
(* (cell c is the piece between the grid points c - 1 and c); a polygon    *)
(* that misses the track covers {}.  The boolean operations of the         *)
(* geometry library are modelled by what they return on such zones.        *)
(***************************************************************************)
Cells == 1..GridN

\* _get_unique_zone: self.excl_zones.extend(zones); the union of all zones.
UnionCells(zones) == UNION {zones[i] : i \in DOMAIN zones}

\* boolean_2d_common(pfloop, excl_zone): the maximal runs <<lo, hi>> of covered
\* cells, as sub-arcs from the grid point lo to the grid point hi.
RunsOf(cells) ==
    LET runs == {r \in (0..GridN) \X (0..GridN) :
                    /\ r[1] < r[2]
                    /\ \A c \in (r[1] + 1)..r[2] : c \in cells
                    /\ r[1] \notin cells
                    /\ (r[2] + 1) \notin cells}
    IN  SortKeyed([i \in 1..Cardinality(runs) |->
            CHOOSE r \in runs : Cardinality({q \in runs : q[1] < r[1]}) = i - 1])

CommonArcs == [cells \in SUBSET Cells |-> RunsOf(cells)]

ExclArcs(cells) == CommonArcs[cells]

\* The end points excl.d2.T[0] and excl.d2.T[-1] of a sub-arc; the library
\* may hand the arc's points over in either direction.
ArcFirst(arc, reversed) == <<(IF reversed THEN arc[2] ELSE arc[1]) * SegDen, 0>>
ArcLast(arc, reversed) == <<(IF reversed THEN arc[1] ELSE arc[2]) * SegDen, 0>>

\* One pass of "for i, excl in enumerate(self.excl_loops)": sorted([start, stop]).
ExclusionOf(arc, reversed, round) ==
    LET p0 == L_to_xz(0)
        p1 == L_to_xz(LOne)
        first == ArcFirst(arc, reversed)
        last == ArcLast(arc, reversed)
        start == IF p0 = first \/ p0 = last THEN 0
                 ELSE xz_to_L(first[1], first[2], RoundAt(round, first[1]))
        stop == IF p1 = last \/ p1 = first THEN LOne
                ELSE xz_to_L(last[1], last[2], RoundAt(round, last[1]))
    IN  <<Min2(start, stop), Max2(start, stop)>>

\* self.exclusions after add_exclusion_zones: sorted by the first edge.
Exclusions(arcs, rev, round) ==
    SortKeyed([i \in DOMAIN arcs |-> ExclusionOf(arcs[i], i \in rev, round)])

\* The inner end points of the arcs, the ones xz_to_L can be asked for with
\* a result inside the track.
ArcEnds(arcs) ==
    {arcs[i][k] * SegDen : i \in DOMAIN arcs, k \in 1..2} \cap InteriorX

\* The values self.exclusions can take for the covered cells, one for each
\* choice of the arcs handed over reversed and of the roundings at their end
\* points.
ExclusionChoices ==
    [cells \in SUBSET Cells |->
        {Exclusions(ExclArcs(cells), rev, round) :
            rev \in SUBSET DOMAIN ExclArcs(cells),
            round \in [ArcEnds(ExclArcs(cells)) -> Rounding]}]

(***************************************************************************)
(* XZLMapper._get_bounds and XZLMapper.get_Lmap                            *)
(***************************************************************************)
\* e = [e for b in self.exclusions for e in b]
RECURSIVE FlatEdges(_)
FlatEdges(ex) == IF ex = <<>> THEN <<>> ELSE <<Head(ex)[1], Head(ex)[2]>> \o FlatEdges(Tail(ex))

RECURSIVE BoundsLoop(_, _, _, _)
BoundsLoop(e, k, l, lb) ==
    IF k > Len(e) THEN <<lb, LOne>>
    ELSE IF l < e[k] THEN <<lb, e[k]>>
    ELSE BoundsLoop(e, k + 1, l, e[k])

\* _get_bounds whose loop does not stop at the first edge above l_values.
_get_bounds_last_edge(ex, l) ==
    <<BoundsLoop(FlatEdges(ex), 1, l, 0)[1],
      IF \E k \in DOMAIN FlatEdges(ex) : l < FlatEdges(ex)[k]
      THEN FlatEdges(ex)[Len(FlatEdges(ex))] ELSE LOne>>

\* _get_bounds(l_values): <<lb, ub>>
_get_bounds(ex, l) == BoundsLoop(FlatEdges(ex), 1, l, 0)

\* "for ex in self.exclusions" of get_Lmap.  d_l is a local that only this
\* loop assigns: [bound, v], bound = FALSE while it has no value.
RECURSIVE NudgeLoop(_, _, _, _, _)
NudgeLoop(ex, k, loc, rc, d_l) ==
    IF k > Len(ex) THEN d_l
    ELSE IF ex[k][1] < loc /\ loc < ex[k][2]
    THEN LET back == -(loc - ex[k][1] + ((2 * rc * LOne) \div pfloop_length))
             forw == ex[k][2] - loc + ((2 * rc * LOne) \div pfloop_length)
         IN  IF Abs(back) >= Abs(forw) THEN [bound |-> TRUE, v |-> forw]
                                       ELSE [bound |-> TRUE, v |-> back]
    ELSE NudgeLoop(ex, k + 1, loc, rc, [bound |-> TRUE, v |-> 0])

\* "for i, coil in enumerate(pf_coils)": st = [status, l_values, lb, ub, d_l,
\* loc], loc the values xz_to_L gave for the coils so far.
RECURSIVE PFLoop(_, _, _, _, _)
PFLoop(ex, pf_coils, i, st, round) ==
    IF i >= Len(pf_coils) \/ st.status # "returned" THEN st
    ELSE LET coil == At(pf_coils, i)
             loc == xz_to_L(coil.x, coil.z, RoundAt(round, coil.x))
         IN  IF ex # None
             THEN LET d_l == NudgeLoop(ex, 1, loc, coil.rc, st.d_l)
                  IN  IF ~d_l.bound
                      THEN [st EXCEPT !.status = "UnboundLocalError",
                                      !.loc = Append(@, loc)]
                      ELSE LET b == _get_bounds(ex, loc + d_l.v)
                           IN  PFLoop(ex, pf_coils, i + 1,
                                      [st EXCEPT !.l_values = Put(@, i, loc + d_l.v),
                                                 !.lb = Put(@, i, b[1]),
                                                 !.ub = Put(@, i, b[2]),
                                                 !.d_l = d_l,
                                                 !.loc = Append(@, loc)], round)
             ELSE PFLoop(ex, pf_coils, i + 1,
                         [st EXCEPT !.l_values = Put(@, i, loc),
                                    !.lb = Put(@, i, 0),
                                    !.ub = Put(@, i, LOne),
                                    !.loc = Append(@, loc)], round)

\* get_Lmap(coilset, mapping): the outcome [status, l_values, lb, ub, l_cs,
\* lbcs, ubcs, loc].  The returned vectors are l_values, lb, ub (numerators
\* over LOne) followed by l_cs, lbcs, ubcs (numerators over CSOne(m)); loc is
\* not returned: it is the L that xz_to_L gave for each coil (line 321).
\* round is the rounding of xz_to_L at the coils' positions.
Failed(name, loc) ==
    [status |-> name, l_values |-> <<>>, lb |-> <<>>, ub |-> <<>>,
     l_cs |-> <<>>, lbcs |-> <<>>, ubcs |-> <<>>, loc |-> loc]

get_Lmap(m, ex, cset, names, round) ==
    LET track_coils == Cardinality(names)
        IsTrack(coil) == coil.name \in names
        IsCS(coil) == coil.ctype = "CS"
        pf_coils == SelectSeq(cset, IsTrack)
        st == PFLoop(ex, pf_coils, 0,
                     [status |-> "returned", l_values |-> Zeros(track_coils),
                      lb |-> Zeros(track_coils), ub |-> Zeros(track_coils),
                      d_l |-> [bound |-> FALSE, v |-> 0], loc |-> <<>>], round)
    IN  IF st.status # "returned" THEN Failed(st.status, st.loc)
        ELSE LET seg == _segment_tracks(st.lb, st.ub)
             IN  IF seg.status # "returned" THEN Failed(seg.status, st.loc)
                 ELSE LET l == ClipVec(st.l_values, seg.lb, seg.ub)
                          cs == SelectSeq(cset, IsCS)
                          n_CS == Len(cs)
                          l_cs == z_to_L(m, [i \in 1..n_CS |-> cs[i].z])
                      IN  IF ~m.flag_CS
                          THEN [status |-> "returned", l_values |-> l,
                                lb |-> seg.lb, ub |-> seg.ub,
                                l_cs |-> <<>>, lbcs |-> <<>>, ubcs |-> <<>>,
                                loc |-> st.loc]
                          ELSE IF l_cs.status # "returned" THEN Failed(l_cs.status, st.loc)
                          ELSE [status |-> "returned", l_values |-> l,
                                lb |-> seg.lb, ub |-> seg.ub,
                                l_cs |-> l_cs.L,
                                lbcs |-> [i \in 1..n_CS |-> 0],
                                ubcs |-> [i \in 1..n_CS |-> CSOne(m)],
                                loc |-> st.loc]

(***************************************************************************)
(* CoilPositioner                                                          *)
(* z_min, z_max and csgap are integers (whole units of length).  A layout  *)
(* holds its module centres zc and half-heights dz, top module first, as   *)
(* numerators over its own denominator den, so that the divisions by n_CS  *)
(* and n_CS + 1 are exact.                                                 *)
(***************************************************************************)
\* Solenoid(x_cs, tk_cs, z_min, z_max, n_CS, gap): n_CS modules of one height
\* stacked from z_max down with the gap between neighbours, filling
\* [z_min, z_max].  dz = ((z_max - z_min) - gap (n - 1)) / n / 2 and
\* zc[i] = z_max - gap i - dz (2 i + 1).
SolenoidGrid(z_min, z_max, n_CS, gap) ==
    LET den == 2 * n_CS
        h == (z_max - z_min) - gap * (n_CS - 1)
    IN  [kind |-> "grid", n_CS |-> n_CS, den |-> den,
         zc |-> [k \in 1..n_CS |-> den * z_max - den * gap * (k - 1) - h * (2 * (k - 1) + 1)],
         dz |-> [k \in 1..n_CS |-> h]]

\* equispace_CS(x_cs, tk_cs, z_min, z_max, n_CS)
equispace_CS(pos, z_min, z_max, n_CS) == SolenoidGrid(z_min, z_max, n_CS, pos.csgap)

\* a = np.linspace(1, n_CS * 2 - 1, n_CS); a[n_CS // 2:] += 2;
\* a[n_CS // 2] = n_CS + 1, at the 0-based index i.
DemoA(n_CS, i) ==
    IF i = n_CS \div 2 THEN n_CS + 1
    ELSE IF i >= n_CS \div 2 THEN (2 * i + 1) + 2
    ELSE 2 * i + 1

\* heights = length / 2 * np.ones(n_CS); heights[n_CS // 2] = length, in
\* units of length / 2.
DemoHeight_central_off_by_one(n_CS, i) == IF i = (n_CS + 1) \div 2 THEN 2 ELSE 1

DemoHeight(n_CS, i) == IF i = n_CS \div 2 THEN 2 ELSE 1

\* The layout of demospace_CS for odd n_CS > 2.  With den = 2 (n_CS + 1),
\* length / 2 = ((z_max - z_min) - (n_CS - 1) csgap) / den.
DemoLayout(pos, z_min, z_max, n_CS) ==
    LET den == 2 * (n_CS + 1)
        half == (z_max - z_min) - (n_CS - 1) * pos.csgap
    IN  [kind |-> "coils", n_CS |-> n_CS, den |-> den,
         zc |-> [k \in 1..n_CS |->
                    den * z_max - (DemoA(n_CS, k - 1) * half + (k - 1) * pos.csgap * den)],
         dz |-> [k \in 1..n_CS |-> DemoHeight(n_CS, k - 1) * half]]

\* demospace_CS(x_cs, tk_cs, z_min, z_max, n_CS): [warned, layout]; warned
\* when bluemira_warn was called.
DemoGuard_and(n_CS) == n_CS <= 2 /\ n_CS % 2 = 0

DemoGuard(n_CS) == n_CS <= 2 \/ n_CS % 2 = 0

demospace_CS(pos, z_min, z_max, n_CS) ==
    IF DemoGuard(n_CS)
    THEN [warned |-> TRUE, layout |-> equispace_CS(pos, z_min, z_max, n_CS)]
    ELSE [warned |-> FALSE, layout |-> DemoLayout(pos, z_min, z_max, n_CS)]

\* equispace_PF(track, n_PF): the outcome [status, argl, argu, den, pos].  The
\* two projections onto the track either give an index (proj.ok) or raise
\* ValueError, which the code replaces by the first / last index.  The coils
\* sit at pos[k] / den = np.linspace(0, 1, n_PF)[k] along the sub-track from
\* point argl to point argu.  au and al are assigned only for the two known
\* reactor types.
equispace_PF(pos, n_PF, projl, proju) ==
    IF pos.rtype \notin {"Normal", "ST"}
    THEN [status |-> "UnboundLocalError", argl |-> 0, argu |-> 0, den |-> 1, pos |-> <<>>]
    ELSE [status |-> "returned",
          argl |-> IF projl.ok THEN projl.arg ELSE 0,
          argu |-> IF proju.ok THEN proju.arg ELSE Len(pos.track) - 1,
          den |-> Max2(n_PF - 1, 1),
          pos |-> [k \in 1..n_PF |-> k - 1]]

\* max(self.track.z)
RECURSIVE MaxOf(_)
MaxOf(zs) == IF Len(zs) = 1 THEN zs[1] ELSE Max2(Head(zs), MaxOf(Tail(zs)))

\* make_coilset(d_coil): the outcome [status, pf, warned, cs]; cs is the
\* Solenoid appended to the coils, NoSolenoid when there is none.
NoSolenoid == [kind |-> "none"]

make_coilset(pos, projl, proju) ==
    LET pf == equispace_PF(pos, pos.n_PF, projl, proju)
        z_max == MaxOf([i \in DOMAIN pos.track |-> pos.track[i][2]])
        z_min == -z_max
        demo == demospace_CS(pos, z_min, z_max, pos.n_CS)
    IN  IF pf.status # "returned"
        THEN [status |-> pf.status, pf |-> pf, warned |-> FALSE, cs |-> NoSolenoid]
        ELSE IF pos.n_CS # 0
        THEN IF pos.cslayout = "ITER"
             THEN [status |-> "returned", pf |-> pf, warned |-> FALSE,
                   cs |-> equispace_CS(pos, z_min, z_max, pos.n_CS)]
             ELSE IF pos.cslayout = "DEMO"
             THEN [status |-> "returned", pf |-> pf, warned |-> demo.warned,
                   cs |-> demo.layout]
             ELSE [status |-> "ValueError", pf |-> pf, warned |-> FALSE, cs |-> NoSolenoid]
        ELSE [status |-> "returned", pf |-> pf, warned |-> FALSE, cs |-> NoSolenoid]

(***************************************************************************)
(* RegionMapper: names.                                                    *)
(* A string is the sequence of its characters.  A name handed to the       *)
(* mapper is a string (StrName) or another object, here an integer         *)
(* (IntName).                                                              *)
(***************************************************************************)
StrName(chars) == [str |-> TRUE, chars |-> chars, num |-> 0]
IntName(n) == [str |-> FALSE, chars |-> <<>>, num |-> n]

DigitChars == <<"0", "1", "2", "3", "4", "5", "6", "7", "8", "9">>
IsDigit(c) == \E i \in DOMAIN DigitChars : DigitChars[i] = c
DigitVal(c) == (CHOOSE i \in DOMAIN DigitChars : DigitChars[i] = c) - 1
AllDigits(s) == Len(s) >= 1 /\ \A i \in DOMAIN s : IsDigit(s[i])

RECURSIVE DigitsVal(_)
DigitsVal(s) ==
    IF s = <<>> THEN 0
    ELSE 10 * DigitsVal(SubSeq(s, 1, Len(s) - 1)) + DigitVal(s[Len(s)])

\* str(num), as "{}".format(num) writes an integer.
RECURSIVE NatToChars(_)
NatToChars(n) ==
    IF n < 10 THEN <<DigitChars[n + 1]>>
    ELSE NatToChars(n \div 10) \o <<DigitChars[(n % 10) + 1]>>
IntToChars(n) == IF n < 0 THEN <<"-">> \o NatToChars(-n) ELSE NatToChars(n)

\* The regular expression [0-9]+([.][0-9]+)? on a whole string.
IsNumber(s) ==
    \/ AllDigits(s)
    \/ \E k \in 2..(Len(s) - 1) :
          /\ s[k] = "."
          /\ AllDigits(SubSeq(s, 1, k - 1))
          /\ AllDigits(SubSeq(s, k + 1, Len(s)))

\* "$" of re.match matches at the end of the string and before a newline that
\* ends it.
MatchesNumberToEnd(s) ==
    \/ IsNumber(s)
    \/ Len(s) >= 1 /\ s[Len(s)] = "\n" /\ IsNumber(SubSeq(s, 1, Len(s) - 1))

HasPrefix(s, p) == Len(s) >= Len(p) /\ SubSeq(s, 1, Len(p)) = p

\* re.match("^R_[0-9]+([.][0-9]+)?$", region) and the same for "PF_".
MatchesR(s) == HasPrefix(s, <<"R", "_">>) /\ MatchesNumberToEnd(SubSeq(s, 3, Len(s)))
MatchesPF(s) == HasPrefix(s, <<"P", "F", "_">>) /\ MatchesNumberToEnd(SubSeq(s, 4, Len(s)))

\* regionname.split("_")[-1]
LastSegment(s) ==
    LET us == {i \in DOMAIN s : s[i] = "_"}
        last == IF us = {} THEN 0 ELSE CHOOSE i \in us : \A j \in us : j <= i
    IN  SubSeq(s, last + 1, Len(s))

\* int(s) of a string: white space around the number is dropped, a sign is
\* allowed, the rest must be digits, single underscores between digits are
\* skipped; [ok, val], ok = FALSE for ValueError.
\* The white space int() drops: tab, line feed, vertical tab, form feed,
\* carriage return, space, U+0085 and U+00A0.  The separators U+001C..U+001F
\* are white space for str.isspace() but not for int(), which raises
\* ValueError on them.  (The white space beyond U+00FF, like the decimal
\* digits beyond "0".."9" that int() also reads, is not among the characters
\* of the model's names.)
WhiteSpace == {" ", "\t", "\n", "\r", "\f", "", "", " "}
IsSpace(c) == c \in WhiteSpace
RECURSIVE StripLeft(_)
StripLeft(s) == IF s # <<>> /\ IsSpace(Head(s)) THEN StripLeft(Tail(s)) ELSE s
RECURSIVE StripRight(_)
StripRight(s) ==
    IF s # <<>> /\ IsSpace(s[Len(s)]) THEN StripRight(SubSeq(s, 1, Len(s) - 1)) ELSE s
\* Digits with single underscores between them.
IsIntBody(s) ==
    /\ s # <<>> /\ IsDigit(s[1]) /\ IsDigit(s[Len(s)])
    /\ \A i \in DOMAIN s : IsDigit(s[i]) \/ s[i] = "_"
    /\ \A i \in 1..(Len(s) - 1) : ~(s[i] = "_" /\ s[i + 1] = "_")
PyInt(s) ==
    LET t == StripRight(StripLeft(s))
        signed == t # <<>> /\ Head(t) \in {"+", "-"}
        body == IF signed THEN Tail(t) ELSE t
        sign == IF signed /\ Head(t) = "-" THEN -1 ELSE 1
    IN  IF IsIntBody(body) THEN [ok |-> TRUE, val |-> sign * DigitsVal(SelectSeq(body, IsDigit))]
        ELSE [ok |-> FALSE, val |-> 0]

\* self.name_str = "R_{}" and PF_COIL_NAME = "PF_{}"
name_str(num) == <<"R", "_">> \o IntToChars(num)
PF_COIL_NAME(num) == <<"P", "F", "_">> \o IntToChars(num)

\* _name_converter(regionname, coil_to_region): [status, key].  An object
\* without split raises AttributeError, int() of a non-number ValueError.
_name_converter(regionname, coil_to_region) ==
    IF ~regionname.str THEN [status |-> "AttributeError", key |-> <<>>]
    ELSE LET num == PyInt(LastSegment(regionname.chars))
         IN  IF ~num.ok THEN [status |-> "ValueError", key |-> <<>>]
             ELSE [status |-> "returned",
                   key |-> IF coil_to_region THEN name_str(num.val)
                           ELSE PF_COIL_NAME(num.val)]

\* _regionname(region): [status, key]
_regionname(region) ==
    IF ~region.str THEN [status |-> "returned", key |-> name_str(region.num)]
    ELSE IF MatchesR(region.chars) THEN [status |-> "returned", key |-> region.chars]
    ELSE IF MatchesPF(region.chars) THEN _name_converter(region, TRUE)
    ELSE [status |-> "NameError", key |-> <<>>]

(***************************************************************************)
(* RegionInterpolator on the regions of the model.  A loop is a polygon    *)
(* between z = zlo and z = zhi (whole units), symmetric about the vertical *)
(* line through the middle of [xlo, xhi]:                                  *)
(*   "rect"    - the rectangle [xlo, xhi] x [zlo, zhi];                    *)
(*   "tri"     - the triangle with the base [xlo, xhi] at zlo and its apex *)
(*               at zhi;                                                   *)
(*   "diamond" - the rhombus with a vertex at zlo, one at zhi and the      *)
(*               width xhi - xlo at mid-height.                            *)
(* A loop also carries its area and the area of its convex hull (in        *)
(* 1 / AreaOne of a square unit) and whether all its y are non-zero.  A    *)
(* normalised coordinate l_0 or l_1 is a numerator over RegionOne; the x   *)
(* and z of a point handed to to_L or back by to_xz are numerators over    *)
(* RegionOne too ("fine units").                                           *)
(***************************************************************************)
\* Areas are held in units of the default relative tolerance of np.allclose
\* (rtol = 1e-5, line 786).
AreaOne == 100000

\* bluemira.base.constants.EPS (the machine epsilon) in units of 1 / AreaOne,
\* rounded down.
EPS == 0

Loop(xlo, xhi, zlo, zhi, area, y_nonzero) ==
    [xlo |-> xlo, xhi |-> xhi, zlo |-> zlo, zhi |-> zhi, shape |-> "rect",
     area |-> area * AreaOne, hull |-> (xhi - xlo) * (zhi - zlo) * AreaOne,
     y_nonzero |-> y_nonzero]

\* A square above z = 0, a square across z = 0, the second square lifted off
\* the x-z plane, and an L-shaped loop (a square less one quarter).
RectA == Loop(1, 3, 1, 3, 4, FALSE)
RectB == Loop(4, 8, -2, 2, 16, FALSE)
OffPlane == Loop(4, 8, -2, 2, 16, TRUE)
LShape == Loop(4, 8, -2, 2, 12, FALSE)

\* A triangle with its apex at the top, a rhombus across z = 0, and the
\* square RectB with a dent of 1e-4 square units in one side.
TriUp == [Loop(2, 6, 1, 5, 8, FALSE) EXCEPT !.shape = "tri", !.hull = 8 * AreaOne]
Diamond == [Loop(4, 8, -2, 2, 8, FALSE) EXCEPT !.shape = "diamond", !.hull = 8 * AreaOne]
Dented == [RectB EXCEPT !.area = 16 * AreaOne - 10]

\* The common denominator of the normalised coordinates: the sides of the
\* rectangles divide it.
RegionOne == LCM(RectA.xhi - RectA.xlo, RectB.xhi - RectB.xlo)

\* Half the width of the loop, in fine units, at the height zn (fine units)
\* with zlo <= zn <= zhi.
HalfWidth(loop, zn) ==
    LET hw == (loop.xhi - loop.xlo) * RegionOne
        h == (loop.zhi - loop.zlo) * RegionOne
        up == zn - loop.zlo * RegionOne
        down == loop.zhi * RegionOne - zn
    IN  IF loop.shape = "rect" THEN hw \div 2
        ELSE IF loop.shape = "tri" THEN (hw * down) \div (2 * h)
        ELSE (hw * Min2(up, down)) \div h

\* loop_plane_intersect(loop, plane) with the horizontal plane at z = zn /
\* RegionOne: no crossing (None), the one crossing at a vertex, or the two
\* crossings; pts are the x of the crossings in fine units.
NoIntersect == [none |-> TRUE, pts |-> <<>>]
loop_plane_intersect(loop, zn) ==
    LET mid == ((loop.xlo + loop.xhi) * RegionOne) \div 2
        w == HalfWidth(loop, zn)
    IN  IF zn < loop.zlo * RegionOne \/ zn > loop.zhi * RegionOne THEN NoIntersect
        ELSE IF w = 0 THEN [none |-> FALSE, pts |-> <<mid>>]
        ELSE [none |-> FALSE, pts |-> <<mid - w, mid + w>>]

\* np.allclose(a, b, atol=EPS): abs(a - b) <= atol + rtol * abs(b).
allclose(a, b, atol) == Abs(a - b) <= atol + Abs(b) \div AreaOne

\* check_loop_feasibility without the convexity test.
check_loop_feasibility_accepts_all(loop) == loop.hull >= 0

\* check_loop_feasibility(loop) passes.
check_loop_feasibility(loop) == allclose(loop.hull, loop.area, EPS)

\* RegionInterpolator(loop): [status, loop]
RegionInterpolator(loop) ==
    IF check_loop_feasibility(loop) THEN [status |-> "returned", loop |-> loop]
    ELSE [status |-> "GeometryError", loop |-> loop]

\* The float nan (0.0 / 0.0 of numpy values).
NaN == "nan"

\* _intersect_filter that measures x from the origin instead of from x_min.
IntersectFilterOf_from_origin(loop, x, l_1, intersect) ==
    IF Len(intersect.pts) = 2
    THEN LET x_min == Min2(intersect.pts[1], intersect.pts[2])
             x_max == Max2(intersect.pts[1], intersect.pts[2])
         IN  [status |-> "returned",
              l_0 |-> clip((x * RegionOne) \div (x_max - x_min), 0, RegionOne),
              l_1 |-> l_1]
    ELSE [status |-> "returned",
          l_0 |-> IF l_1 = RegionOne THEN RegionOne ELSE 0, l_1 |-> l_1]

\* _intersect_filter(x, l_1, intersect) once intersect is not None:
\* [status, l_0, l_1].  The crossings are numpy values, so that the division
\* by x_max - x_min = 0 does not raise: it gives +inf, -inf or nan, which the
\* clip turns into 1, 0 and nan.
IntersectFilterOf(loop, x, l_1, intersect) ==
    IF Len(intersect.pts) = 2
    THEN LET x_min == Min2(intersect.pts[1], intersect.pts[2])
             x_max == Max2(intersect.pts[1], intersect.pts[2])
         IN  IF x_max = x_min
             THEN [status |-> "returned",
                   l_0 |-> IF x > x_min THEN RegionOne ELSE IF x < x_min THEN 0 ELSE NaN,
                   l_1 |-> l_1]
             ELSE [status |-> "returned",
                   l_0 |-> clip(((x - x_min) * RegionOne) \div (x_max - x_min), 0, RegionOne),
                   l_1 |-> l_1]
    ELSE IF Len(intersect.pts) = 1
    THEN [status |-> "returned",
          l_0 |-> IF l_1 = RegionOne THEN RegionOne ELSE 0, l_1 |-> l_1]
    ELSE [status |-> "GeometryError", l_0 |-> 0, l_1 |-> l_1]

\* _intersect_filter(x, l_1, intersect): with intersect None the loop is cut
\* again by the plane through (x, 0, 0), (x + 1, 0, 0), (x, 1, 0), which is the
\* plane z = 0, and the filter is called again with [False] for no crossing.
_intersect_filter(loop, x, l_1, intersect) ==
    IF intersect.none
    THEN LET again == loop_plane_intersect(loop, 0)
         IN  IntersectFilterOf(loop, x, l_1,
                               IF again.none THEN [none |-> FALSE, pts |-> <<0>>] ELSE again)
    ELSE IntersectFilterOf(loop, x, l_1, intersect)

\* to_L(x, z): [status, l_0, l_1]
to_L(loop, x, z) ==
    LET l_1 == clip(((z - loop.zlo * RegionOne) * RegionOne)
                        \div ((loop.zhi - loop.zlo) * RegionOne), 0, RegionOne)
    IN  _intersect_filter(loop, x, l_1, loop_plane_intersect(loop, z))

\* to_xz(l_values): [status, x, z]
to_xz(loop, l_values) ==
    LET l_0 == l_values[1]
        l_1 == l_values[2]
        z == loop.zlo * RegionOne + (loop.zhi - loop.zlo) * l_1
        intersect == loop_plane_intersect(loop, z)
    IN  IF intersect.none THEN [status |-> "TypeError", x |-> 0, z |-> z]
        ELSE IF Len(intersect.pts) = 1
        THEN [status |-> "returned", x |-> intersect.pts[1], z |-> z]
        ELSE IF Len(intersect.pts) = 2
        THEN LET x_min == Min2(intersect.pts[1], intersect.pts[2])
                 x_max == Max2(intersect.pts[1], intersect.pts[2])
             IN  [status |-> "returned",
                  x |-> x_min + ((x_max - x_min) * l_0) \div RegionOne, z |-> z]
        ELSE [status |-> "GeometryError", x |-> 0, z |-> z]

(***************************************************************************)
(* RegionMapper.  The mapper is the record [pfregions, regions,            *)
(* no_regions, l_values, max_currents, _coilset]; a dict is the sequence   *)
(* of its items [key, val] in insertion order.  l_values is the 2-D array  *)
(* [shape |-> "2d", rows] or the flat array [shape |-> "flat", data].      *)
(***************************************************************************)
DictIndex(d, key) ==
    IF \E i \in DOMAIN d : d[i].key = key
    THEN CHOOSE i \in DOMAIN d : d[i].key = key
    ELSE 0

\* d[key] = val
DictSet(d, key, val) ==
    IF DictIndex(d, key) = 0 THEN Append(d, [key |-> key, val |-> val])
    ELSE [d EXCEPT ![DictIndex(d, key)].val = val]

DictKeys(d) == {d[i].key : i \in DOMAIN d}

\* np.zeros((n, 2))
Zeros2d(n) == [shape |-> "2d", rows |-> [i \in 1..n |-> <<0, 0>>], data |-> <<>>]

\* _region_setup(pf_name, loop_reg): [status, rm]
_region_setup(rm, pf_name, loop_reg) ==
    LET region_name == _name_converter(pf_name, TRUE)
        interpolator == RegionInterpolator(loop_reg)
    IN  IF loop_reg.y_nonzero THEN [status |-> "EquilibriaError", rm |-> rm]
        ELSE IF region_name.status # "returned" THEN [status |-> region_name.status, rm |-> rm]
        ELSE IF interpolator.status # "returned" THEN [status |-> interpolator.status, rm |-> rm]
        ELSE [status |-> "returned",
              rm |-> [rm EXCEPT !.regions = DictSet(@, region_name.key, interpolator.loop)]]

\* "for pf_name, loop_reg in self.pfregions.items()" of __init__.
RECURSIVE SetupLoop(_, _, _)
SetupLoop(st, items, i) ==
    IF i > Len(items) \/ st.status # "returned" THEN st
    ELSE SetupLoop(_region_setup(st.rm, items[i].key, items[i].val), items, i + 1)

\* The end of __init__ after the loop over the items ended as st.
InitResult(st) ==
    IF st.status = "AttributeError" THEN [status |-> "EquilibriaError", rm |-> st.rm]
    ELSE IF st.status # "returned" THEN st
    ELSE [status |-> "returned",
          rm |-> [st.rm EXCEPT !.no_regions = Len(st.rm.regions),
                               !.l_values = Zeros2d(Len(st.rm.regions)),
                               !.max_currents = Zeros(Len(st.rm.regions))]]

\* The mapper when __init__ enters its loop.
EmptyMapper(items) ==
    [pfregions |-> items, regions |-> <<>>, no_regions |-> 0,
     l_values |-> Zeros2d(0), max_currents |-> <<>>, _coilset |-> None]

\* RegionMapper(pfregions): [status, rm].  pfregions is a dict, or an object
\* without items(); AttributeError inside the loop becomes EquilibriaError.
RegionMapper(pfregions) ==
    IF ~pfregions.dict
    THEN [status |-> "EquilibriaError", rm |-> EmptyMapper(<<>>)]
    ELSE InitResult(SetupLoop([status |-> "returned", rm |-> EmptyMapper(pfregions.items)],
                              pfregions.items, 1))

\* add_region(pfregion) with pfregion = {name: region}: [status, rm]
add_region_keeps_max_currents(rm, name, region) ==
    _region_setup([rm EXCEPT !.pfregions = DictSet(@, name, region),
                             !.no_regions = @ + 1,
                             !.l_values = Zeros2d(rm.no_regions + 1),
                             !.max_currents = Append(@, 0)],
                  name, region)

add_region(rm, name, region) ==
    _region_setup([rm EXCEPT !.pfregions = DictSet(@, name, region),
                             !.no_regions = @ + 1,
                             !.l_values = Zeros2d(rm.no_regions + 1),
                             !.max_currents = Zeros(rm.no_regions + 1)],
                  name, region)

\* RegionMapper.xz_to_L(region, x, z): [status, l_0, l_1]
ToLOfKey(rm, key, x, z) ==
    IF key.status # "returned" THEN [status |-> key.status, l_0 |-> 0, l_1 |-> 0]
    ELSE IF DictIndex(rm.regions, key.key) = 0
    THEN [status |-> "KeyError", l_0 |-> 0, l_1 |-> 0]
    ELSE to_L(rm.regions[DictIndex(rm.regions, key.key)].val, x * RegionOne, z * RegionOne)
Region_xz_to_L(rm, region, x, z) == ToLOfKey(rm, _regionname(region), x, z)

\* RegionMapper.L_to_xz(region, l_values): [status, x, z]
ToXzOfKey(rm, key, l_values) ==
    IF key.status # "returned" THEN [status |-> key.status, x |-> 0, z |-> 0]
    ELSE IF DictIndex(rm.regions, key.key) = 0
    THEN [status |-> "KeyError", x |-> 0, z |-> 0]
    ELSE to_xz(rm.regions[DictIndex(rm.regions, key.key)].val, l_values)
Region_L_to_xz(rm, region, l_values) == ToXzOfKey(rm, _regionname(region), l_values)

\* coilset[name]: the index of the coil with that name, 0 for KeyError.
CoilIndex(cset, name) ==
    IF \E i \in DOMAIN cset : cset[i].name = name
    THEN CHOOSE i \in DOMAIN cset : cset[i].name = name
    ELSE 0

\* self.l_values[no] = (l_0, l_1): a row of the 2-D array; on the flat array
\* numpy raises ValueError (IndexError past its end).
SetRow(l_values, no, l) ==
    IF l_values.shape = "2d"
    THEN IF no >= Len(l_values.rows) THEN [status |-> "IndexError", l_values |-> l_values]
         ELSE [status |-> "returned",
               l_values |-> [l_values EXCEPT !.rows = Put(@, no, <<l.l_0, l.l_1>>)]]
    ELSE IF no >= Len(l_values.data) THEN [status |-> "IndexError", l_values |-> l_values]
    ELSE [status |-> "ValueError", l_values |-> l_values]

\* self.l_values[no] = self.xz_to_L(region, coil.x, coil.z), l the outcome of
\* xz_to_L.
LmapAssignRow(st, l, row) ==
    IF l.status # "returned" THEN [st EXCEPT !.status = l.status]
    ELSE [status |-> row.status, rm |-> [st.rm EXCEPT !.l_values = row.l_values]]
LmapAssign(st, no, l) == LmapAssignRow(st, l, SetRow(st.rm.l_values, no, l))

\* One pass of "for no, region in enumerate(self.regions.keys())" of
\* get_Lmap: st = [status, rm].  A coil that is not in the coil set is
\* skipped with a warning.
LmapStep(st, cset, no) ==
    LET region == StrName(At(st.rm.regions, no).key)
        name == _name_converter(region, FALSE)
        c == CoilIndex(cset, name.key)
    IN  IF name.status # "returned" THEN [st EXCEPT !.status = name.status]
        ELSE IF c = 0 THEN st
        ELSE LmapAssign(st, no, Region_xz_to_L(st.rm, region, cset[c].x, cset[c].z))

RECURSIVE LmapLoop(_, _, _)
LmapLoop(st, cset, no) ==
    IF no >= Len(st.rm.regions) \/ st.status # "returned" THEN st
    ELSE LmapLoop(LmapStep(st, cset, no), cset, no + 1)

\* tools.clip(self.l_values, 0, 1).flatten()
RECURSIVE Flatten(_)
Flatten(rows) == IF rows = <<>> THEN <<>> ELSE Head(rows) \o Flatten(Tail(rows))
ClipFlatten(l_values) ==
    LET flat == IF l_values.shape = "2d" THEN Flatten(l_values.rows) ELSE l_values.data
    IN  [shape |-> "flat", rows |-> <<>>,
         data |-> [i \in DOMAIN flat |-> clip(flat[i], 0, RegionOne)]]

\* The end of get_Lmap after the loop over the regions ended as st.
LmapResult(st, flat) ==
    IF st.status # "returned"
    THEN [status |-> st.status, rm |-> st.rm, l_values |-> <<>>, lb |-> <<>>, ub |-> <<>>]
    ELSE [status |-> "returned", rm |-> [st.rm EXCEPT !.l_values = flat],
          l_values |-> flat.data,
          lb |-> [i \in DOMAIN flat.data |-> 0],
          ub |-> [i \in DOMAIN flat.data |-> RegionOne]]
LmapEnd(st) == LmapResult(st, ClipFlatten(st.rm.l_values))

\* RegionMapper.get_Lmap(coilset): [status, rm, l_values, lb, ub]
Region_get_Lmap(rm, cset) ==
    LmapEnd(LmapLoop([status |-> "returned", rm |-> [rm EXCEPT !._coilset = cset]], cset, 0))

\* coil._get_max_current(*inscribed_rect_in_poly(region.loop, (coil.x,
\* coil.z))): the area of the largest rectangle about the coil that fits.
MaxCurrentOf(loop, coil) ==
    LET dx == Max2(Min2(coil.x - loop.xlo, loop.xhi - coil.x), 0)
        dz == Max2(Min2(coil.z - loop.zlo, loop.zhi - coil.z), 0)
    IN  4 * dx * dz

\* "for no, (name, region) in enumerate(self.regions.items())" of
\* get_size_current_limit: st = [status, rm].
RECURSIVE CurrentLoop(_, _)
CurrentLoop(st, no) ==
    IF no >= Len(st.rm.regions) \/ st.status # "returned" THEN st
    ELSE LET item == At(st.rm.regions, no)
             name == _name_converter(StrName(item.key), FALSE)
             c == CoilIndex(st.rm._coilset, name.key)
         IN  IF name.status # "returned" THEN [st EXCEPT !.status = name.status]
             ELSE IF c = 0 THEN [st EXCEPT !.status = "KeyError"]
             ELSE IF no >= Len(st.rm.max_currents) THEN [st EXCEPT !.status = "IndexError"]
             ELSE CurrentLoop([st EXCEPT !.rm.max_currents =
                                   Put(@, no, MaxCurrentOf(item.val, st.rm._coilset[c]))],
                              no + 1)

\* The end of get_size_current_limit after its loop ended as st.
CurrentResult(st) ==
    [status |-> st.status, rm |-> st.rm,
     max_currents |-> IF st.status = "returned" THEN st.rm.max_currents ELSE <<>>]

\* get_size_current_limit(): [status, rm, max_currents]
get_size_current_limit(rm) ==
    IF Len(rm.regions) > 0 /\ rm._coilset = None
    THEN [status |-> "AttributeError", rm |-> rm, max_currents |-> <<>>]
    ELSE CurrentResult(CurrentLoop([status |-> "returned", rm |-> rm], 0))

(***************************************************************************)
(* Specification SpecSeg: _segment_tracks applied to bound vectors.        *)
(***************************************************************************)
\* Bound pairs on the grid with lower <= upper.
BoundPairs == {p \in GridL \X GridL : p[1] <= p[2]}

BoundVectors == UNION {[1..n -> BoundPairs] : n \in 0..MaxTrackCoils}

CSIdle == positioner = None /\ cs_op = None /\ cs_arg = None /\ cs_out = None

RIIdle == interp = None /\ ri_op = None /\ ri_arg = None /\ ri_out = None

GBIdle == gb_ex = None /\ gb_l = None /\ gb_out = None

RMIdle ==
    /\ rmap = None /\ rm_op = None /\ rm_arg = None /\ rm_out = None /\ rm_calls = None

XZLIdle ==
    /\ mapper = None /\ coilset = None /\ mapping = None
    /\ excl_zones = None /\ exclusions = None /\ lmap = None

SegInit ==
    /\ \E v \in BoundVectors :
          /\ seg_lb = [i \in DOMAIN v |-> v[i][1]]
          /\ seg_ub = [i \in DOMAIN v |-> v[i][2]]
    /\ seg_out = Uncalled
    /\ XZLIdle
    /\ CSIdle
    /\ RMIdle
    /\ RIIdle /\ GBIdle

SegmentTracks ==
    /\ seg_out = Uncalled
    /\ seg_out' = _segment_tracks(seg_lb, seg_ub)
    /\ UNCHANGED <<seg_lb, seg_ub, xzlVars, csVars, rmVars, riVars, gbVars>>

SegNext == SegmentTracks

SpecSeg == SegInit /\ [][SegNext]_vars

\* C2 (as claimed): _segment_tracks returns, and every group of N >= 2 entries
\* that share one lower bound a and one upper bound b > a ends with N equal slices
\* of [a, b] that follow the entries' order monotonically (downwards from b or
\* upwards from a), so that they meet only in end points and cover [a, b], and
\* no two entries of the group end with the same sub-bound.
SegGroup(lb, a) == {i \in DOMAIN lb : lb[i] = a}
SegRank(g, i) == Cardinality({j \in g : j < i})
SegSlicesDown(g, a, b, out) ==
    \A i \in g : /\ out.lb[i] * Cardinality(g) = b * Cardinality(g) - (SegRank(g, i) + 1) * (b - a)
                 /\ out.ub[i] * Cardinality(g) = b * Cardinality(g) - SegRank(g, i) * (b - a)
SegSlicesUp(g, a, b, out) ==
    \A i \in g : /\ out.lb[i] * Cardinality(g) = a * Cardinality(g) + SegRank(g, i) * (b - a)
                 /\ out.ub[i] * Cardinality(g) = a * Cardinality(g) + (SegRank(g, i) + 1) * (b - a)
SegDistinct(g, out) ==
    \A i, j \in g : i # j => <<out.lb[i], out.ub[i]>> # <<out.lb[j], out.ub[j]>>
SegGroupOk(lb, ub, out, a) ==
    LET g == SegGroup(lb, a)
    IN  (Cardinality(g) >= 2 /\ \A i \in g : ub[i] > a /\ \A j \in g : ub[i] = ub[j]) =>
            LET b == ub[CHOOSE i \in g : TRUE]
            IN  /\ SegSlicesDown(g, a, b, out) \/ SegSlicesUp(g, a, b, out)
                /\ SegDistinct(g, out)
C2_Original ==
    seg_out # Uncalled =>
        /\ seg_out.status = "returned"
        /\ \A a \in GridL : SegGroupOk(seg_lb, seg_ub, seg_out, a)

(***************************************************************************)
(* Specification SpecXZL: an XZLMapper over its life.  The coil set and    *)
(* the list of track coil names are those of the optimisation problem the  *)
(* mapper was built for.  Exclusion zones are registered call by call and  *)
(* then get_Lmap is called; the call leaves the mapper as it was (it only  *)
(* keeps the coil set for plotting), so a mapper is followed up to its     *)
(* first get_Lmap.  lmap is the outcome of that call.                      *)
(***************************************************************************)
\* Coil radii, in fine units of length: 2 * rc / pfloop.length is a margin of
\* a third of a grid step or of a grid step and a third.
RcSet == {1, SegDen - 2}

\* A PF coil beside the track at a grid point.
PFCoil(i, x, rc) == [name |-> i, x |-> x, z |-> SegDen, rc |-> rc, ctype |-> "PF"]

\* coilset.coils.values(): k PF coils of one size named 1..k, then the CS
\* modules.  Fewer than MaxTrackCoils coils sit at any grid points;
\* MaxTrackCoils coils are of the smaller size, the first and the last at one
\* grid point (coils that share a position and are not neighbours in the
\* list).
PFCoilLists ==
    UNION {{[i \in 1..k |-> PFCoil(i, xs[i], rc)] : xs \in [1..k -> GridX], rc \in RcSet} :
           k \in 0..(MaxTrackCoils - 1)}
    \cup {[i \in 1..MaxTrackCoils |-> PFCoil(i, xs[i], 1)] :
             xs \in {f \in [1..MaxTrackCoils -> GridX] : f[1] = f[MaxTrackCoils]}}

CSCoil(i, zc) == [name |-> -i, x |-> 1, z |-> zc, rc |-> 1, ctype |-> "CS"]

\* XZLMapper(pftrack) and XZLMapper(pftrack, cs_x, cs_zmin, cs_zmax, cs_gap,
\* CS=True): without CS the fields are None.
NoCSMapper == [flag_CS |-> FALSE, Xcs |-> None, z_min |-> None, z_max |-> None, gap |-> None]
CSMapper(zmin, zmax, gap) ==
    [flag_CS |-> TRUE, Xcs |-> 1, z_min |-> zmin, z_max |-> zmax, gap |-> gap]

\* The mapper with the CS modules of its coil set: none, or the two modules
\* of height 6 that fill [-8, 8] with the gap 4 (then with one PF coil at
\* most).
XZLSetups ==
    << [m |-> NoCSMapper, cs |-> <<>>],
       [m |-> CSMapper(-8, 8, 4), cs |-> <<CSCoil(1, 5), CSCoil(2, -5)>>] >>

\* The names of the track coils: those of the coil set, or all but the first.
Mappings(pf) == { 1..Len(pf), 2..Len(pf) }

\* Zones: a polygon covers the first cell of the track, one of its last two
\* cells or its first two cells, or is off the track.
ZoneSet == {{1}, {GridN - 1}, {GridN}, {1, 2}, {}}
ZoneLists == {<<>>} \cup {<<z>> : z \in ZoneSet}

SegIdle == seg_lb = None /\ seg_ub = None /\ seg_out = None

XZLInit ==
    /\ \E s \in DOMAIN XZLSetups, pf \in PFCoilLists :
          /\ XZLSetups[s].m.flag_CS => Len(pf) <= 1
          /\ mapper = XZLSetups[s].m
          /\ coilset = pf \o XZLSetups[s].cs
          /\ mapping \in Mappings(pf)
    /\ excl_zones = <<>>
    /\ exclusions = None
    /\ lmap = Uncalled
    /\ SegIdle
    /\ CSIdle
    /\ RMIdle
    /\ RIIdle /\ GBIdle

\* add_exclusion_zones(zones).  When the zones cover no piece of the track the
\* geometry library either returns no sub-arc (self.exclusions = []) or
\* raises after self.excl_zones was extended (self.exclusions is left as it
\* was).
AddExclusionZones ==
    \E zones \in ZoneLists :
        /\ lmap = Uncalled
        /\ Len(excl_zones) + Len(zones) <= MaxZones
        /\ excl_zones' = excl_zones \o zones
        /\ \/ exclusions' \in ExclusionChoices[UnionCells(excl_zones \o zones)]
           \/ UnionCells(excl_zones \o zones) = {} /\ exclusions' = exclusions
        /\ lmap' = Uncalled
        /\ UNCHANGED <<mapper, coilset, mapping, segVars, csVars, rmVars, riVars, gbVars>>

\* get_Lmap(coilset, mapping), for every rounding the minimiser can make at
\* the positions of the named coils.
GetLmap ==
    /\ lmap = Uncalled
    /\ \E round \in [{coilset[i].x : i \in {j \in DOMAIN coilset : coilset[j].name \in mapping}}
                        \cap InteriorX -> Rounding] :
          lmap' = get_Lmap(mapper, exclusions, coilset, mapping, round)
    /\ UNCHANGED <<mapper, coilset, mapping, excl_zones, exclusions, segVars, csVars, rmVars, riVars, gbVars>>

XZLNext == AddExclusionZones \/ GetLmap

SpecXZL == XZLInit /\ [][XZLNext]_vars

\* C1 (as claimed): every call of get_Lmap returns its three vectors, with
\* lower[i] <= initial[i] <= upper[i] at every index i, whatever exclusion
\* zones were registered before it (none, or zones that exclude nothing).
Ordered(l, lo, hi) ==
    /\ Len(l) = Len(lo) /\ Len(l) = Len(hi)
    /\ \A i \in DOMAIN l : lo[i] <= l[i] /\ l[i] <= hi[i]
C1_Original ==
    lmap # Uncalled =>
        /\ lmap.status = "returned"
        /\ Ordered(lmap.l_values, lmap.lb, lmap.ub)
        /\ Ordered(lmap.l_cs, lmap.lbcs, lmap.ubcs)

(***************************************************************************)
(* Specification SpecCS: the solenoid functions applied to their inputs.   *)
(* A CoilPositioner or an XZLMapper with a CS track is built; then one of  *)
(* equispace_CS, demospace_CS, make_coilset (positioner), z_to_L and       *)
(* L_to_zdz (mapper) is called, and L_to_zdz may be called on the vector   *)
(* z_to_L returned.                                                        *)
(***************************************************************************)
\* The track of the positioner: three points, the highest at z = zt.
TrackOf(zt) == << <<1, -zt>>, <<1 + zt, 0>>, <<1, zt>> >>

Positioners ==
    [n_PF : {1, 2}, n_CS : 0..MaxNCS, csgap : 1..MaxGap,
     rtype : {"Normal", "ST", "Other"}, cslayout : {"ITER", "DEMO", "JET"},
     track : {TrackOf(zt) : zt \in (ZTop - 1)..ZTop}]

\* What track.receive_projection gives for the lower and for the upper
\* angle: an index of the track, or ValueError (ok = FALSE).
LowerProjections == {[ok |-> FALSE, arg |-> 0], [ok |-> TRUE, arg |-> 0]}
UpperProjections == {[ok |-> FALSE, arg |-> 0]} \cup [ok : {TRUE}, arg : {1, 2}]

\* The z ranges the CS functions are called with.
ZMaxOf(pos) == MaxOf([i \in DOMAIN pos.track |-> pos.track[i][2]])
ZMins(pos) == {-ZMaxOf(pos), 0}

\* A stack with modules of positive height exists.
Feasible(pos, z_min, z_max, n_CS) == (n_CS - 1) * pos.csgap < z_max - z_min

\* Stacks of n modules that fill [z_min, z_max] of the mapper m with exactly
\* the gap between neighbours: the sequences of heights (even numbers of
\* quarter units, so that the centres are integers), top module first.
RECURSIVE SumSeq(_)
SumSeq(q) == IF q = <<>> THEN 0 ELSE Head(q) + SumSeq(Tail(q))

StackHeights(m, n) ==
    {h \in [1..n -> {2 * k : k \in 1..(CSOne(m) \div 2)}] :
        SumSeq(h) + (n - 1) * m.gap = CSOne(m)}

\* The modules [zc, dz] of the stack with the heights h, top module first.
StackOf(m, h) ==
    [k \in DOMAIN h |->
        [zc |-> m.z_max - SumSeq(SubSeq(h, 1, k - 1)) - (k - 1) * m.gap - h[k] \div 2,
         dz |-> h[k] \div 2]]

\* L vectors an optimiser may hand to L_to_zdz: whole units, some outside
\* [0, 1].
LCandidates(m) == {4 * k : k \in -1..(CSOne(m) \div 4 + 1)}
RECURSIVE Vectors(_, _)
Vectors(S, n) == IF n = 0 THEN {<<>>} ELSE {Append(v, x) : v \in Vectors(S, n - 1), x \in S}
LVectors(m) == UNION {Vectors(LCandidates(m), n) : n \in 1..MaxStack}

\* The arguments of the latest call, a record per operation; none before the
\* first call.
NoArgs == [args |-> "none"]

\* An object that was not constructed yet.
Unbuilt == [kind |-> "unbuilt"]

CSInit ==
    /\ positioner = Unbuilt
    /\ mapper = Unbuilt
    /\ cs_op = "idle"
    /\ cs_arg = NoArgs
    /\ cs_out = Uncalled
    /\ coilset = None /\ mapping = None
    /\ excl_zones = None /\ exclusions = None /\ lmap = None
    /\ SegIdle
    /\ RMIdle
    /\ RIIdle /\ GBIdle

\* CoilPositioner(R_0, A, delta, kappa, track, x_cs, tk_cs, n_PF, n_CS, csgap,
\* rtype, cslayout)
NewCoilPositioner ==
    /\ positioner = Unbuilt /\ mapper = Unbuilt
    /\ positioner' \in Positioners
    /\ UNCHANGED <<cs_op, cs_arg, cs_out, segVars, xzlVars, rmVars, riVars, gbVars>>

\* XZLMapper(pftrack, cs_x, cs_zmin, cs_zmax, cs_gap, CS=True), in quarter
\* units.
NewXZLMapper ==
    /\ positioner = Unbuilt /\ mapper = Unbuilt
    /\ \E zt \in (ZTop - 1)..ZTop, z_min \in {-1, 0}, gap \in 1..MaxGap :
          mapper' = CSMapper(4 * z_min * zt, 4 * zt, 4 * gap)
    /\ UNCHANGED <<coilset, mapping, excl_zones, exclusions, lmap, segVars, csVars, rmVars, riVars, gbVars>>

EquispaceCS ==
    /\ cs_op = "idle" /\ positioner # Unbuilt
    /\ \E z_min \in ZMins(positioner), n_CS \in 1..MaxNCS :
          /\ Feasible(positioner, z_min, ZMaxOf(positioner), n_CS)
          /\ cs_arg' = [z_min |-> z_min, z_max |-> ZMaxOf(positioner), n_CS |-> n_CS]
          /\ cs_out' = [status |-> "returned", warned |-> FALSE,
                        layout |-> equispace_CS(positioner, z_min, ZMaxOf(positioner), n_CS)]
    /\ cs_op' = "equispace_CS"
    /\ UNCHANGED <<positioner, segVars, xzlVars, rmVars, riVars, gbVars>>

DemospaceCS ==
    /\ cs_op = "idle" /\ positioner # Unbuilt
    /\ \E z_min \in ZMins(positioner), n_CS \in 1..MaxNCS :
          /\ Feasible(positioner, z_min, ZMaxOf(positioner), n_CS)
          /\ cs_arg' = [z_min |-> z_min, z_max |-> ZMaxOf(positioner), n_CS |-> n_CS]
          /\ LET r == demospace_CS(positioner, z_min, ZMaxOf(positioner), n_CS)
             IN  cs_out' = [status |-> "returned", warned |-> r.warned, layout |-> r.layout]
    /\ cs_op' = "demospace_CS"
    /\ UNCHANGED <<positioner, segVars, xzlVars, rmVars, riVars, gbVars>>

MakeCoilset ==
    /\ cs_op = "idle" /\ positioner # Unbuilt
    /\ Feasible(positioner, -ZMaxOf(positioner), ZMaxOf(positioner), positioner.n_CS)
    /\ \E projl \in LowerProjections, proju \in UpperProjections :
          /\ cs_arg' = [projl |-> projl, proju |-> proju]
          /\ cs_out' = make_coilset(positioner, projl, proju)
    /\ cs_op' = "make_coilset"
    /\ UNCHANGED <<positioner, segVars, xzlVars, rmVars, riVars, gbVars>>

\* z_to_L on the centres of a valid stack, handed over top first or bottom
\* first.
ZToL ==
    /\ cs_op = "idle" /\ mapper # Unbuilt
    /\ \E n \in 1..MaxStack : \E h \in StackHeights(mapper, n) : \E up \in BOOLEAN :
          LET stack == IF up THEN Reverse(StackOf(mapper, h)) ELSE StackOf(mapper, h)
          IN  /\ cs_arg' = [stack |-> stack]
              /\ cs_out' = z_to_L(mapper, [k \in DOMAIN stack |-> stack[k].zc])
    /\ cs_op' = "z_to_L"
    /\ UNCHANGED <<positioner, segVars, xzlVars, rmVars, riVars, gbVars>>

\* L_to_zdz on the vector z_to_L returned.
LToZdzOfZToL ==
    /\ cs_op = "z_to_L"
    /\ cs_out.status = "returned"
    /\ cs_out' = L_to_zdz(mapper, cs_out.L)
    /\ cs_op' = "L_to_zdz(z_to_L)"
    /\ UNCHANGED <<cs_arg, positioner, segVars, xzlVars, rmVars, riVars, gbVars>>

\* L_to_zdz on a vector of the optimiser.
LToZdz ==
    /\ cs_op = "idle" /\ mapper # Unbuilt
    /\ \E l_values \in LVectors(mapper) :
          /\ cs_arg' = [l_values |-> l_values]
          /\ cs_out' = L_to_zdz(mapper, l_values)
    /\ cs_op' = "L_to_zdz"
    /\ UNCHANGED <<positioner, segVars, xzlVars, rmVars, riVars, gbVars>>

CSNext ==
    \/ NewCoilPositioner \/ NewXZLMapper
    \/ EquispaceCS \/ DemospaceCS \/ MakeCoilset \/ ZToL \/ LToZdzOfZToL \/ LToZdz

SpecCS == CSInit /\ [][CSNext]_vars

\* Modules [zc, dz] (centre and half-height) along z: the span of module i,
\* the free distance between two modules, and the three properties of a
\* layout between lo and hi.
SpanLo(zc, dz, i) == zc[i] - dz[i]
SpanHi(zc, dz, i) == zc[i] + dz[i]
Between(zc, dz, i, j) ==
    Max2(SpanLo(zc, dz, i) - SpanHi(zc, dz, j), SpanLo(zc, dz, j) - SpanHi(zc, dz, i))
LayoutOk(zc, dz, lo, hi, gap) ==
    /\ Len(zc) = Len(dz)
    /\ \A i \in DOMAIN zc : lo <= SpanLo(zc, dz, i) /\ SpanHi(zc, dz, i) <= hi
    /\ \A i, j \in DOMAIN zc : i # j => Between(zc, dz, i, j) >= 0
    /\ \A i \in DOMAIN zc : i + 1 \in DOMAIN zc => Between(zc, dz, i, i + 1) = gap

\* The stack handed to z_to_L, in ascending z.
StackAscending(stack) ==
    LET t == SortKeyed([k \in DOMAIN stack |-> <<stack[k].zc, stack[k]>>])
    IN  [k \in DOMAIN t |-> t[k][2]]

\* C5 (as claimed): for every stack of n >= 1 modules that fills
\* [z_min, z_max] with exactly the gap between neighbours,
\* L_to_zdz(z_to_L(centres)) returns the centres of the stack in ascending z
\* and the half-heights of its modules.
RoundTripIsIdentity ==
    /\ cs_out.status = "returned"
    /\ Len(cs_out.zc) = Len(cs_arg.stack)
    /\ \A k \in DOMAIN cs_arg.stack :
          /\ cs_out.zc[k] = StackAscending(cs_arg.stack)[k].zc
          /\ cs_out.dz[k] = StackAscending(cs_arg.stack)[k].dz
C5_Original ==
    cs_op = "L_to_zdz(z_to_L)" => RoundTripIsIdentity

\* C6 (as claimed): the modules of demospace_CS for odd n > 2, and the modules
\* L_to_zdz returns for any vector of L values, do not overlap, have exactly
\* the gap between neighbours and lie inside [z_min, z_max].
C6_Original ==
    /\ (cs_op = "demospace_CS" /\ cs_arg.n_CS > 2 /\ cs_arg.n_CS % 2 = 1) =>
          LayoutOk(cs_out.layout.zc, cs_out.layout.dz,
                   cs_out.layout.den * cs_arg.z_min, cs_out.layout.den * cs_arg.z_max,
                   cs_out.layout.den * positioner.csgap)
    /\ (cs_op = "L_to_zdz" /\ cs_out.status = "returned") =>
          LayoutOk(cs_out.zc, cs_out.dz, mapper.z_min, mapper.z_max, mapper.gap)

\* C7: for every odd n_CS > 2, demospace_CS produces n_CS modules whose
\* heights (twice the half-heights) sum to (z_max - z_min) - (n_CS - 1) gap,
\* and the central module is exactly twice as high as every other module.
C7_DemoHeights ==
    (cs_op = "demospace_CS" /\ cs_arg.n_CS > 2 /\ cs_arg.n_CS % 2 = 1) =>
        LET lay == cs_out.layout
            n == cs_arg.n_CS
            mid == n \div 2 + 1
        IN  /\ Len(lay.dz) = n /\ Len(lay.zc) = n
            /\ 2 * SumSeq(lay.dz) =
                   lay.den * ((cs_arg.z_max - cs_arg.z_min) - (n - 1) * positioner.csgap)
            /\ \A j \in 1..n : j # mid => lay.dz[mid] = 2 * lay.dz[j]
            /\ \A j \in 1..n : lay.dz[j] > 0
C7_Witness ==
    /\ cs_op = "demospace_CS" /\ cs_arg.n_CS = 5 /\ cs_out.status = "returned"
    /\ cs_out.layout.dz[3] = 2 * cs_out.layout.dz[1]

\* C8: demospace_CS with n_CS even or n_CS <= 2 warns, does not raise and
\* returns exactly the layout of equispace_CS for the same arguments; it
\* builds the DEMO layout, without warning, only when n_CS is odd and > 2.
C8_DemoFallback ==
    cs_op = "demospace_CS" =>
        /\ cs_out.status = "returned"
        /\ (cs_arg.n_CS <= 2 \/ cs_arg.n_CS % 2 = 0) =>
              /\ cs_out.warned
              /\ cs_out.layout =
                     equispace_CS(positioner, cs_arg.z_min, cs_arg.z_max, cs_arg.n_CS)
        /\ (cs_out.layout.kind = "coils" \/ ~cs_out.warned) =>
              (cs_arg.n_CS > 2 /\ cs_arg.n_CS % 2 = 1)
        /\ (cs_arg.n_CS > 2 /\ cs_arg.n_CS % 2 = 1) => cs_out.layout.kind = "coils"
C8_Witness ==
    /\ cs_op = "demospace_CS" /\ cs_arg.n_CS = 4
    /\ cs_out.warned /\ cs_out.layout.kind = "grid" /\ Len(cs_out.layout.zc) = 4

\* C9 (as claimed): make_coilset raises the configuration error for every
\* layout keyword other than ITER and DEMO, whatever the other parameters
\* of the positioner are, and returns a coil set for ITER and DEMO.
C9_Original ==
    cs_op = "make_coilset" =>
        IF positioner.cslayout \in {"ITER", "DEMO"}
        THEN cs_out.status = "returned"
        ELSE cs_out.status = "ValueError"

(***************************************************************************)
(* Specification SpecRegion: a RegionMapper over its life.  The mapper is  *)
(* built from a dict of regions; then add_region, get_Lmap,                *)
(* get_size_current_limit, L_to_xz and xz_to_L are called in any order.    *)
(* rm_calls counts the calls made on the mapper.                           *)
(***************************************************************************)
\* Strings used as names.
Name_R_1 == StrName(<<"R", "_", "1">>)
Name_PF_1 == StrName(<<"P", "F", "_", "1">>)
Name_PF_2 == StrName(<<"P", "F", "_", "2">>)
Name_R_9 == StrName(<<"R", "_", "9">>)
Name_coil_3 == StrName(<<"c", "o", "i", "l", "_", "3">>)
Name_foo == StrName(<<"f", "o", "o">>)
Name_PF_1p5 == StrName(<<"P", "F", "_", "1", ".", "5">>)

Item(name, loop) == [key |-> name, val |-> loop]
Dict(items) == [dict |-> TRUE, items |-> items]

\* What the constructor is handed: dicts of regions, and a list.
PfRegionInputs ==
    { Dict(<<>>),
      Dict(<<Item(Name_PF_1, RectA)>>),
      Dict(<<Item(Name_R_1, RectA), Item(Name_PF_2, RectB)>>),
      Dict(<<Item(Name_coil_3, RectA)>>),
      Dict(<<Item(Name_PF_1, RectA), Item(Name_foo, RectB)>>),
      Dict(<<Item(IntName(1), RectA)>>),
      Dict(<<Item(Name_PF_1, LShape)>>),
      [dict |-> FALSE, items |-> <<>>] }

AddNames == {Name_R_1, Name_PF_2, Name_coil_3, Name_foo}
AddLoops == {RectB, OffPlane, LShape}
QueryNames == {Name_R_1, Name_PF_1, Name_R_9, Name_foo, Name_PF_1p5, IntName(1)}

\* Coil sets: both coils inside their regions, or PF_1 outside and no PF_2.
RegionCoil(num, x, z) == [name |-> PF_COIL_NAME(num), x |-> x, z |-> z]
RegionCoilSets ==
    { <<RegionCoil(1, 2, 2), RegionCoil(2, 6, -1), RegionCoil(3, 5, 1)>>,
      <<RegionCoil(1, 9, 5)>> }

QueryPoints == {<<2, 2>>, <<9, 5>>}
QueryLValues == {<<RegionOne \div 2, RegionOne \div 4>>}

RegionInit ==
    /\ rmap = Unbuilt
    /\ rm_op = "idle"
    /\ rm_arg = NoArgs
    /\ rm_out = Uncalled
    /\ rm_calls = 0
    /\ SegIdle /\ XZLIdle /\ CSIdle /\ RIIdle /\ GBIdle

\* The mapper and the outcome after a call that ended as r = [status, rm].
Constructed(r) ==
    /\ rmap' = IF r.status = "returned" THEN r.rm ELSE Unbuilt
    /\ rm_out' = [status |-> r.status]
Changed(r) ==
    /\ rmap' = r.rm
    /\ rm_out' = [status |-> r.status]
GotLmap(r) ==
    /\ rmap' = r.rm
    /\ rm_out' = [status |-> r.status, l_values |-> r.l_values, lb |-> r.lb, ub |-> r.ub]
GotCurrents(r) ==
    /\ rmap' = r.rm
    /\ rm_out' = [status |-> r.status, max_currents |-> r.max_currents]
GotL(r) == rm_out' = [status |-> r.status, l_0 |-> r.l_0, l_1 |-> r.l_1]
GotXz(r) == rm_out' = [status |-> r.status, x |-> r.x, z |-> r.z]

\* RegionMapper(pfregions); no mapper exists when the constructor raises.
NewRegionMapper ==
    /\ rmap = Unbuilt
    /\ \E p \in PfRegionInputs :
          /\ Constructed(RegionMapper(p))
          /\ rm_arg' = [pfregions |-> p]
    /\ rm_op' = "RegionMapper"
    /\ UNCHANGED <<rm_calls, segVars, xzlVars, csVars, riVars, gbVars>>

\* add_region({name: loop})
AddRegion ==
    /\ rmap # Unbuilt /\ rm_calls < MaxCalls
    /\ \E name \in AddNames, loop \in AddLoops :
          /\ Changed(add_region(rmap, name, loop))
          /\ rm_arg' = [name |-> name, loop |-> loop]
    /\ rm_op' = "add_region"
    /\ rm_calls' = rm_calls + 1
    /\ UNCHANGED <<segVars, xzlVars, csVars, riVars, gbVars>>

\* get_Lmap(coilset)
RegionGetLmap ==
    /\ rmap # Unbuilt /\ rm_calls < MaxCalls
    /\ \E cset \in RegionCoilSets :
          /\ GotLmap(Region_get_Lmap(rmap, cset))
          /\ rm_arg' = [coilset |-> cset]
    /\ rm_op' = "get_Lmap"
    /\ rm_calls' = rm_calls + 1
    /\ UNCHANGED <<segVars, xzlVars, csVars, riVars, gbVars>>

\* get_size_current_limit()
GetSizeCurrentLimit ==
    /\ rmap # Unbuilt /\ rm_calls < MaxCalls
    /\ GotCurrents(get_size_current_limit(rmap))
    /\ rm_arg' = NoArgs
    /\ rm_op' = "get_size_current_limit"
    /\ rm_calls' = rm_calls + 1
    /\ UNCHANGED <<segVars, xzlVars, csVars, riVars, gbVars>>

\* L_to_xz(region, l_values)
RegionLToXz ==
    /\ rmap # Unbuilt /\ rm_calls < MaxCalls
    /\ \E region \in QueryNames, l \in QueryLValues :
          /\ GotXz(Region_L_to_xz(rmap, region, l))
          /\ rm_arg' = [region |-> region, l_values |-> l]
    /\ rm_op' = "L_to_xz"
    /\ rm_calls' = rm_calls + 1
    /\ UNCHANGED <<rmap, segVars, xzlVars, csVars, riVars, gbVars>>

\* xz_to_L(region, x, z)
RegionXzToL ==
    /\ rmap # Unbuilt /\ rm_calls < MaxCalls
    /\ \E region \in QueryNames, p \in QueryPoints :
          /\ GotL(Region_xz_to_L(rmap, region, p[1], p[2]))
          /\ rm_arg' = [region |-> region, x |-> p[1], z |-> p[2]]
    /\ rm_op' = "xz_to_L"
    /\ rm_calls' = rm_calls + 1
    /\ UNCHANGED <<rmap, segVars, xzlVars, csVars, riVars, gbVars>>

RegionNext ==
    \/ NewRegionMapper \/ AddRegion \/ RegionGetLmap \/ GetSizeCurrentLimit
    \/ RegionLToXz \/ RegionXzToL

SpecRegion == RegionInit /\ [][RegionNext]_vars

\* C3 (as claimed): every call of RegionMapper.get_Lmap, the second and later
\* calls included, returns a position vector of length 2 x (number of
\* regions, as the mapper counts them in no_regions) with every entry in
\* [0, 1], a lower-bound vector of zeros and an upper-bound vector of ones of
\* the same length.
C3_Original ==
    rm_op = "get_Lmap" =>
        /\ rm_out.status = "returned"
        /\ Len(rm_out.l_values) = 2 * rmap.no_regions
        /\ Len(rm_out.lb) = Len(rm_out.l_values) /\ Len(rm_out.ub) = Len(rm_out.l_values)
        /\ \A i \in DOMAIN rm_out.l_values :
              /\ 0 <= rm_out.l_values[i] /\ rm_out.l_values[i] <= RegionOne
              /\ rm_out.lb[i] = 0 /\ rm_out.ub[i] = RegionOne

\* A step of add_region on a mapper.
AddRegionStep == rmap # Unbuilt /\ rm_op' = "add_region" /\ rm_calls' = rm_calls + 1

\* The last-known normalised position of the region at index i of the dict.
RegionPosition(rm, i) ==
    IF rm.l_values.shape = "2d" THEN rm.l_values.rows[i]
    ELSE <<rm.l_values.data[2 * i - 1], rm.l_values.data[2 * i]>>

\* C4 (as claimed): add_region leaves the interpolator, the last-known
\* position and the maximum-current bound of every region that existed
\* before the call unchanged and adds the new region; no region name is ever
\* lost.
C4_Original ==
    [][AddRegionStep =>
          /\ \A i \in DOMAIN rmap.regions :
                /\ i \in DOMAIN rmap'.regions
                /\ rmap'.regions[i] = rmap.regions[i]
                /\ RegionPosition(rmap', i) = RegionPosition(rmap, i)
                /\ rmap'.max_currents[i] = rmap.max_currents[i]
          /\ DictKeys(rmap.regions) \subseteq DictKeys(rmap'.regions)
          /\ rm_out'.status = "returned" => Len(rmap'.regions) = Len(rmap.regions) + 1]_vars

\* C4 (amended): add_region({name: loop}) removes no region key and keeps the
\* order of the keys; it leaves the interpolator of every existing region
\* unchanged, except that of the key the name resolves to, which it replaces
\* by the interpolator of the new loop (it appends the key when it is new, and
\* leaves the regions as they were when it raises); it increments no_regions
\* and resets the last-known positions and the maximum-current bounds of all
\* regions to arrays of zeros with no_regions rows.
C4_Amended ==
    [][AddRegionStep =>
          LET new == _name_converter(rm_arg'.name, TRUE)
              old == rmap.regions
              now == rmap'.regions
          IN  /\ \A i \in DOMAIN old :
                    /\ i \in DOMAIN now /\ now[i].key = old[i].key
                    /\ now[i].val # old[i].val =>
                          /\ rm_out'.status = "returned"
                          /\ old[i].key = new.key /\ now[i].val = rm_arg'.loop
              /\ rmap'.no_regions = rmap.no_regions + 1
              /\ rmap'.l_values = Zeros2d(rmap.no_regions + 1)
              /\ rmap'.max_currents = Zeros(rmap.no_regions + 1)
              /\ IF rm_out'.status = "returned"
                 THEN /\ DictIndex(now, new.key) # 0
                      /\ now[DictIndex(now, new.key)].val = rm_arg'.loop
                      /\ DictKeys(now) = DictKeys(old) \cup {new.key}
                 ELSE now = old]_vars
C4_Witness ==
    /\ rm_op = "add_region" /\ rm_out.status = "returned" /\ rm_calls = 3
    /\ Len(rmap.regions) = 2 /\ rmap.no_regions = 3
    /\ rmap.regions[1].val = RectB
    /\ rmap.max_currents = Zeros(3)

\* The names of the two patterns: R_<n> and PF_<n> with the digits of n.
RecognisedName(chars) ==
    \/ HasPrefix(chars, <<"R", "_">>) /\ AllDigits(SubSeq(chars, 3, Len(chars)))
    \/ HasPrefix(chars, <<"P", "F", "_">>) /\ AllDigits(SubSeq(chars, 4, Len(chars)))
Unrecognised(name) == name.str /\ ~RecognisedName(name.chars)

\* C10 (as claimed): R_n and PF_n resolve to the one key R_n, and a call that
\* is handed a string of neither pattern - as a key at construction or in
\* add_region, or as the region of L_to_xz or xz_to_L - fails (here: with any
\* error) and registers or resolves no region.
C10_Original ==
    /\ \A n \in 0..12 :
          /\ _regionname(StrName(<<"R", "_">> \o IntToChars(n))) =
                 [status |-> "returned", key |-> <<"R", "_">> \o IntToChars(n)]
          /\ _regionname(StrName(<<"P", "F", "_">> \o IntToChars(n))) =
                 [status |-> "returned", key |-> <<"R", "_">> \o IntToChars(n)]
    /\ rm_op = "RegionMapper" =>
          ((\E i \in DOMAIN rm_arg.pfregions.items : Unrecognised(rm_arg.pfregions.items[i].key))
              => rm_out.status # "returned")
    /\ (rm_op = "add_region" /\ Unrecognised(rm_arg.name)) => rm_out.status # "returned"
    /\ (rm_op \in {"L_to_xz", "xz_to_L"} /\ Unrecognised(rm_arg.region)) =>
          rm_out.status # "returned"

(***************************************************************************)
(* Specification SpecRI: one RegionInterpolator over its life.  It is      *)
(* built from a loop; then to_xz, to_L and to_L of the point that to_xz    *)
(* returned are called with values inside and outside their ranges.        *)
(***************************************************************************)
\* The loops handed to the constructor.
RILoops == {RectA, RectB, TriUp, Diamond, LShape, Dented}

\* Normalised coordinates from just below 0 to just above 1.
RILValues == (-1..(RegionOne + 1)) \X (-1..(RegionOne + 1))

\* Points (whole units) inside, on and outside the loops.
RIPoints == {0, 2, 4, 5, 6, 9} \X {-3, 0, 1, 3, 5, 7}

RIInit ==
    /\ interp = Unbuilt
    /\ ri_op = "idle"
    /\ ri_arg = NoArgs
    /\ ri_out = Uncalled
    /\ SegIdle /\ XZLIdle /\ CSIdle /\ RMIdle /\ GBIdle

\* RegionInterpolator(loop)
NewRegionInterpolator ==
    /\ interp = Unbuilt
    /\ \E loop \in RILoops :
          /\ ri_arg' = [loop |-> loop]
          /\ ri_out' = [status |-> RegionInterpolator(loop).status]
          /\ interp' = IF RegionInterpolator(loop).status = "returned"
                       THEN RegionInterpolator(loop) ELSE interp
    /\ ri_op' = "RegionInterpolator"
    /\ UNCHANGED <<segVars, xzlVars, csVars, rmVars, gbVars>>

\* to_xz(l_values)
RIToXz ==
    /\ interp # Unbuilt
    /\ \E l \in RILValues :
          /\ ri_arg' = [l_values |-> l]
          /\ ri_out' = to_xz(interp.loop, l)
    /\ ri_op' = "to_xz"
    /\ UNCHANGED <<interp, segVars, xzlVars, csVars, rmVars, gbVars>>

\* to_L(x, z)
RIToL ==
    /\ interp # Unbuilt
    /\ \E p \in RIPoints :
          /\ ri_arg' = [x |-> p[1], z |-> p[2]]
          /\ ri_out' = to_L(interp.loop, p[1] * RegionOne, p[2] * RegionOne)
    /\ ri_op' = "to_L"
    /\ UNCHANGED <<interp, segVars, xzlVars, csVars, rmVars, gbVars>>

\* to_L(*to_xz(l_values)) after a to_xz(l_values) that returned.
RIToLOfToXz ==
    /\ ri_op = "to_xz" /\ ri_out.status = "returned"
    /\ ri_out' = to_L(interp.loop, ri_out.x, ri_out.z)
    /\ ri_op' = "to_L(to_xz)"
    /\ UNCHANGED <<interp, ri_arg, segVars, xzlVars, csVars, rmVars, gbVars>>

RINext == NewRegionInterpolator \/ RIToXz \/ RIToL \/ RIToLOfToXz

SpecRI == RIInit /\ [][RINext]_vars

\* (l_0, l_1) is in the unit square.
InUnitSquare(l) == /\ 0 <= l[1] /\ l[1] <= RegionOne /\ 0 <= l[2] /\ l[2] <= RegionOne

\* The number of points in which the loop meets the horizontal line at l_1 of
\* its height.
Crossings(loop, l_1) ==
    Len(loop_plane_intersect(loop,
            loop.zlo * RegionOne + (loop.zhi - loop.zlo) * l_1).pts)

\* C11 (as claimed): for (L0, L1) in the unit square, L1 = 0 and L1 = 1 on a
\* region that ends in a single vertex included, to_L(to_xz(L0, L1)) returns
\* (L0, L1).
C11_Original ==
    (ri_op = "to_L(to_xz)" /\ InUnitSquare(ri_arg.l_values)) =>
        /\ ri_out.status = "returned"
        /\ <<ri_out.l_0, ri_out.l_1>> = ri_arg.l_values

\* C11 (amended): for (L0, L1) in the unit square to_L(to_xz(L0, L1)) returns
\* (L0, L1) whenever the region meets the horizontal line at L1 in two points;
\* where it meets it in a single vertex the result is (1, 1) at L1 = 1 and
\* (0, L1) otherwise.
C11_Amended ==
    (ri_op = "to_L(to_xz)" /\ InUnitSquare(ri_arg.l_values)) =>
        /\ ri_out.status = "returned"
        /\ ri_out.l_1 = ri_arg.l_values[2]
        /\ ri_out.l_0 = IF Crossings(interp.loop, ri_arg.l_values[2]) = 2
                        THEN ri_arg.l_values[1]
                        ELSE IF ri_arg.l_values[2] = RegionOne THEN RegionOne ELSE 0
C11_Witness ==
    /\ ri_op = "to_L(to_xz)" /\ interp.loop = Diamond
    /\ ri_arg.l_values = <<1, 3>> /\ ri_out.status = "returned"
    /\ ri_out.l_0 = 1 /\ ri_out.l_1 = 3

\* The point (x, z), in fine units, lies in the loop.
InLoop(loop, x, z) ==
    LET cut == loop_plane_intersect(loop, z)
    IN  /\ ~cut.none
        /\ cut.pts[1] <= x /\ x <= cut.pts[Len(cut.pts)]

\* C12 (as claimed): to_L returns a pair in the unit square for every point,
\* and to_xz returns a point of the region for every pair, in or out of the
\* unit square; neither raises.
C12_Original ==
    /\ ri_op = "to_L" =>
          /\ ri_out.status = "returned"
          /\ InUnitSquare(<<ri_out.l_0, ri_out.l_1>>)
    /\ ri_op = "to_xz" =>
          /\ ri_out.status = "returned"
          /\ InLoop(interp.loop, ri_out.x, ri_out.z)

\* C13: the construction of a RegionInterpolator succeeds exactly when the
\* area of the polygon equals the area of its convex hull within the
\* tolerance (absolute EPS plus 1e-5 of the area); otherwise it raises
\* GeometryError and no interpolator exists.
C13_Convexity ==
    ri_op = "RegionInterpolator" =>
        IF Abs(ri_arg.loop.hull - ri_arg.loop.area) <= EPS + ri_arg.loop.area \div AreaOne
        THEN ri_out.status = "returned" /\ interp # Unbuilt /\ interp.loop = ri_arg.loop
        ELSE ri_out.status = "GeometryError" /\ interp = Unbuilt
C13_Witness ==
    /\ ri_op = "RegionInterpolator" /\ ri_arg.loop = LShape
    /\ ri_out.status = "GeometryError" /\ interp = Unbuilt

(***************************************************************************)
(* Specification SpecGB: _get_bounds applied to a position, on a mapper    *)
(* whose exclusions are sorted and pairwise disjoint intervals between     *)
(* grid points.                                                            *)
(***************************************************************************)
\* Sorted lists of up to n disjoint intervals that start at or after the grid
\* point from.
RECURSIVE IntervalLists(_, _)
IntervalLists(from, n) ==
    {<<>>} \cup
    (IF n = 0 THEN {}
     ELSE UNION {{<<<<p[1] * LStep, p[2] * LStep>>>> \o rest :
                     rest \in IntervalLists(p[2] + 1, n - 1)} :
                 p \in {q \in (from..GridN) \X (from..GridN) : q[1] < q[2]}})

\* Positions on the grid points, one rounding or XTol beside them and half
\* way to the next one; those beside the ends of the track lie off it (a
\* nudged position can leave [0, 1]).
GBPositions == {g + d : g \in GridL, d \in {-XTol, -1, 0, 1, XTol, LStep \div 2}}

GBInit ==
    /\ gb_ex \in IntervalLists(0, MaxZones)
    /\ gb_l \in GBPositions
    /\ gb_out = Uncalled
    /\ SegIdle /\ XZLIdle /\ CSIdle /\ RMIdle /\ RIIdle

\* lb, ub = self._get_bounds(l_values)
GetBounds ==
    /\ gb_out = Uncalled
    /\ gb_out' = [status |-> "returned",
                  lb |-> _get_bounds(gb_ex, gb_l)[1], ub |-> _get_bounds(gb_ex, gb_l)[2]]
    /\ UNCHANGED <<gb_ex, gb_l, segVars, xzlVars, csVars, rmVars, riVars>>

GBNext == GetBounds

SpecGB == GBInit /\ [][GBNext]_vars

\* The edges of the stored intervals.
EdgesOf(ex) == {ex[k][1] : k \in DOMAIN ex} \cup {ex[k][2] : k \in DOMAIN ex}

\* The largest / the smallest member of a non-empty set of numbers.
SetMax(S) == CHOOSE m \in S : \A e \in S : e <= m
SetMin(S) == CHOOSE m \in S : \A e \in S : m <= e

\* l lies in one of the (closed) intervals.
InExclusion(ex, l) == \E k \in DOMAIN ex : ex[k][1] <= l /\ l <= ex[k][2]

\* C14: for sorted, pairwise disjoint intervals and a position l in none of
\* them, _get_bounds returns lower = the largest edge <= l (0 if none) and
\* upper = the smallest edge > l (1 if none); no point of an exclusion
\* interval lies in the open range (lower, upper), and a position on the
\* track lies in [lower, upper].
C14_Bracket ==
    (gb_out # Uncalled /\ ~InExclusion(gb_ex, gb_l)) =>
        LET below == {e \in EdgesOf(gb_ex) : e <= gb_l}
            above == {e \in EdgesOf(gb_ex) : e > gb_l}
        IN  /\ gb_out.lb = IF below = {} THEN 0 ELSE SetMax(below)
            /\ gb_out.ub = IF above = {} THEN LOne ELSE SetMin(above)
            /\ \A k \in DOMAIN gb_ex :
                  gb_ex[k][2] <= gb_out.lb \/ gb_ex[k][1] >= gb_out.ub
            /\ (0 <= gb_l /\ gb_l <= LOne) => (gb_out.lb <= gb_l /\ gb_l <= gb_out.ub)
C14_Witness ==
    /\ gb_out # Uncalled /\ Len(gb_ex) = 2
    /\ gb_ex[1][2] < gb_l /\ gb_l < gb_ex[2][1]
    /\ gb_out.lb = gb_ex[1][2] /\ gb_out.ub = gb_ex[2][1]

(***************************************************************************)
(* Claims on add_exclusion_zones and the nudging of get_Lmap, under        *)
(* SpecXZL.                                                                *)
(***************************************************************************)
\* The L of an end point of a sub-arc: 0 at the first point of the track,
\* 1 at its last point, the point's own L from the numeric search (with the
\* rounding r) otherwise.
EndPointL(g, r) ==
    IF g = 0 THEN 0 ELSE IF g = GridN THEN LOne ELSE xz_to_L(g * SegDen, 0, r)

\* C15 (as claimed): every excluded sub-arc is stored as [min, max] of the L
\* of its two end points, whichever way its points are ordered.
C15_Original ==
    exclusions # None =>
        LET arcs == ExclArcs(UnionCells(excl_zones))
        IN  /\ Len(exclusions) = Len(arcs)
            /\ \A k \in DOMAIN arcs : \E r1, r2 \in Rounding :
                  exclusions[k] =
                      <<Min2(EndPointL(arcs[k][1], r1), EndPointL(arcs[k][2], r2)),
                        Max2(EndPointL(arcs[k][1], r1), EndPointL(arcs[k][2], r2))>>

\* l lies strictly inside one of the intervals.
StrictlyInside(ex, l) == \E k \in DOMAIN ex : ex[k][1] < l /\ l < ex[k][2]

\* The named track coils in the order of the returned vector.
TrackCoils == SelectSeq(coilset, LAMBDA coil : coil.name \in mapping)

\* C16 (as claimed): a named track coil whose L lies strictly inside a
\* registered exclusion interval is returned by get_Lmap at a position that
\* lies strictly inside no registered exclusion interval.
C16_Original ==
    (lmap.status = "returned" /\ exclusions # None) =>
        \A i \in DOMAIN TrackCoils :
            StrictlyInside(exclusions, lmap.loc[i]) =>
                ~StrictlyInside(exclusions, lmap.l_values[i])

(***************************************************************************)
(* Claims on the bookkeeping of the RegionMapper, under SpecRegion.        *)
(***************************************************************************)
\* C17 (as claimed): after the construction and any sequence of add_region
\* calls, calls that re-add a registered name and calls that raise included,
\* no_regions is the number of keys of regions and max_currents has one
\* entry per registered region.
C17_Original ==
    rmap # Unbuilt =>
        /\ rmap.no_regions = Len(rmap.regions)
        /\ Len(rmap.max_currents) = Len(rmap.regions)

\* C18 (as claimed): get_size_current_limit returns in every state of the
\* mapper, before any get_Lmap call as well as after one, one maximum
\* current per registered region.
C18_Original ==
    rm_op = "get_size_current_limit" =>
        /\ rm_out.status = "returned"
        /\ Len(rm_out.max_currents) = Len(rmap.regions)
====
